---- MODULE Spec2Model ----
(***************************************************************************)
(* NFL schedule generator: a model of the pairing, rank-matchup and        *)
(* home/away assignment code of the repository                             *)
(* (schedule_setup.py, home_away_assignments.py, schedule_generator.py,    *)
(* schedule_maker.py, nfl_teams.py).                                       *)
(*                                                                         *)
(* Python dictionaries are functions (the empty dictionary is << >>),      *)
(* Python lists and tuples are sequences.  Every call of the random        *)
(* module is an input of the operator that models the calling function;    *)
(* the actions draw those inputs with \E.                                  *)
(***************************************************************************)
EXTENDS Integers, Sequences, FiniteSets, TLC

VARIABLES
  pc,                      \* position of the running program
  standings,               \* {conference: {division: [team, ...]}}
  intra_matchups,          \* list of (conf1, div1, conf2, div2)
  inter_matchups,          \* list of (conf1, div1, conf2, div2)
  intra_rankings,          \* {"<conf> <div>": [div, div]}
  inter_rankings,          \* list of (conf1, div1, conf2, div2)
  locals,                  \* local variables of a function that runs step by step
  intra_conf_pairing,      \* schedule_maker.get_matchups: {conf: {div: div}}
  inter_conf_pairing,      \* schedule_maker.get_matchups: {conf: {div: div}}
  INTRA_CONF_ASSIGNMENTS,  \* {team code: {opponent code: 'HOME' | 'AWAY'}}
  INTER_CONF_ASSIGNMENTS,  \* {team code: {opponent code: 'HOME' | 'AWAY'}}
  INTRA_RANK_ASSIGNMENTS,  \* {team code: {opponent code: 'HOME' | 'AWAY'}}
  INTER_RANK_ASSIGNMENTS,  \* {team code: {'opponent': code, 'location': ...}}
  afc_hosts,               \* the hosting flag of generate_inter_rank_assignments
  team_code,               \* the team code last asked for
  schedule,                \* what the last query computed for team_code
  nfl_teams                \* the lists the divisions of NFL_TEAMS refer to

\* the variables written by the setup functions
setup == << standings, intra_matchups, inter_matchups, intra_rankings,
            inter_rankings, locals, intra_conf_pairing, inter_conf_pairing >>

\* the four assignment tables
tables == << INTRA_CONF_ASSIGNMENTS, INTER_CONF_ASSIGNMENTS,
             INTRA_RANK_ASSIGNMENTS, INTER_RANK_ASSIGNMENTS >>

\* the variables of a query
asked == << team_code, schedule >>

vars == << pc, setup, tables, afc_hosts, asked, nfl_teams >>

----------------------------------------------------------------------------
(* Reference data *)

\* nfl_teams.NFL_TEAMS
NFL_TEAMS ==
  [
  AFC |-> [
      North |-> <<
        [name |-> "Baltimore Ravens", abbreviation |-> "BAL", conference |-> "AFC", division |-> "North"],
        [name |-> "Cincinnati Bengals", abbreviation |-> "CIN", conference |-> "AFC", division |-> "North"],
        [name |-> "Cleveland Browns", abbreviation |-> "CLE", conference |-> "AFC", division |-> "North"],
        [name |-> "Pittsburgh Steelers", abbreviation |-> "PIT", conference |-> "AFC", division |-> "North"] >>,
      South |-> <<
        [name |-> "Houston Texans", abbreviation |-> "HOU", conference |-> "AFC", division |-> "South"],
        [name |-> "Indianapolis Colts", abbreviation |-> "IND", conference |-> "AFC", division |-> "South"],
        [name |-> "Jacksonville Jaguars", abbreviation |-> "JAX", conference |-> "AFC", division |-> "South"],
        [name |-> "Tennessee Titans", abbreviation |-> "TEN", conference |-> "AFC", division |-> "South"] >>,
      East |-> <<
        [name |-> "Buffalo Bills", abbreviation |-> "BUF", conference |-> "AFC", division |-> "East"],
        [name |-> "Miami Dolphins", abbreviation |-> "MIA", conference |-> "AFC", division |-> "East"],
        [name |-> "New England Patriots", abbreviation |-> "NE", conference |-> "AFC", division |-> "East"],
        [name |-> "New York Jets", abbreviation |-> "NYJ", conference |-> "AFC", division |-> "East"] >>,
      West |-> <<
        [name |-> "Denver Broncos", abbreviation |-> "DEN", conference |-> "AFC", division |-> "West"],
        [name |-> "Kansas City Chiefs", abbreviation |-> "KC", conference |-> "AFC", division |-> "West"],
        [name |-> "Las Vegas Raiders", abbreviation |-> "LV", conference |-> "AFC", division |-> "West"],
        [name |-> "Los Angeles Chargers", abbreviation |-> "LAC", conference |-> "AFC", division |-> "West"] >> ],
  NFC |-> [
      North |-> <<
        [name |-> "Chicago Bears", abbreviation |-> "CHI", conference |-> "NFC", division |-> "North"],
        [name |-> "Detroit Lions", abbreviation |-> "DET", conference |-> "NFC", division |-> "North"],
        [name |-> "Green Bay Packers", abbreviation |-> "GB", conference |-> "NFC", division |-> "North"],
        [name |-> "Minnesota Vikings", abbreviation |-> "MIN", conference |-> "NFC", division |-> "North"] >>,
      South |-> <<
        [name |-> "Atlanta Falcons", abbreviation |-> "ATL", conference |-> "NFC", division |-> "South"],
        [name |-> "Carolina Panthers", abbreviation |-> "CAR", conference |-> "NFC", division |-> "South"],
        [name |-> "New Orleans Saints", abbreviation |-> "NO", conference |-> "NFC", division |-> "South"],
        [name |-> "Tampa Bay Buccaneers", abbreviation |-> "TB", conference |-> "NFC", division |-> "South"] >>,
      East |-> <<
        [name |-> "Dallas Cowboys", abbreviation |-> "DAL", conference |-> "NFC", division |-> "East"],
        [name |-> "New York Giants", abbreviation |-> "NYG", conference |-> "NFC", division |-> "East"],
        [name |-> "Philadelphia Eagles", abbreviation |-> "PHI", conference |-> "NFC", division |-> "East"],
        [name |-> "Washington Commanders", abbreviation |-> "WAS", conference |-> "NFC", division |-> "East"] >>,
      West |-> <<
        [name |-> "Arizona Cardinals", abbreviation |-> "ARI", conference |-> "NFC", division |-> "West"],
        [name |-> "Los Angeles Rams", abbreviation |-> "LAR", conference |-> "NFC", division |-> "West"],
        [name |-> "San Francisco 49ers", abbreviation |-> "SF", conference |-> "NFC", division |-> "West"],
        [name |-> "Seattle Seahawks", abbreviation |-> "SEA", conference |-> "NFC", division |-> "West"] >> ] ]

Conferences == << "AFC", "NFC" >>
Divisions == << "North", "South", "East", "West" >>

\* data.conferences: the key order of each conference's division dictionary
MakerDivisionKeys == << "East", "North", "South", "West" >>

Range(s) == { s[i] : i \in DOMAIN s }
ConfSet == Range(Conferences)
DivSet == Range(Divisions)

EmptyDict == << >>

\* d[k] = v on a dictionary
DictSet(d, k, v) == (k :> v) @@ d

\* {k: v for k in keys}, as a dictionary extended by those already in d
DictOver(keys, v, d) == d @@ [ k \in keys |-> v ]

\* f"{conference} {division}"
DivKey(conference, division) == conference \o " " \o division

\* key.split(): the two words of a "<conf> <div>" key
SplitKey(key) ==
  CHOOSE w \in ConfSet \X DivSet : DivKey(w[1], w[2]) = key

----------------------------------------------------------------------------
(* The random module *)

Permutations4 ==
  { p \in [1..4 -> 1..4] : \A i, j \in 1..4 : p[i] = p[j] => i = j }

\* a variant: the list is only ever rotated
ShuffleOutcomes_rotations(list) ==
  { [ i \in 1..4 |-> list[((i - 1 + shift) % 4) + 1] ] : shift \in 0..3 }

\* random.shuffle(list) on a list of 4: every reordering is a possible outcome
ShuffleOutcomes(list) ==
  { [ i \in 1..4 |-> list[p[i]] ] : p \in Permutations4 }

----------------------------------------------------------------------------
(* schedule_setup.py *)

PairsOfConference(conf, div_list) ==
  << << conf, div_list[1], conf, div_list[2] >>,
     << conf, div_list[3], conf, div_list[4] >> >>

ZipDivisions(afc_divs, nfc_divs) ==
  [ i \in 1..Len(afc_divs) |-> << "AFC", afc_divs[i], "NFC", nfc_divs[i] >> ]

\* a variant: the second pair of a conference starts one position early
generate_pairings_matchups_overlapping(matchup_type, shuffled1, shuffled2) ==
  IF matchup_type = "intra"
  THEN << << "AFC", shuffled1[1], "AFC", shuffled1[2] >>,
          << "AFC", shuffled1[2], "AFC", shuffled1[3] >>,
          << "NFC", shuffled2[1], "NFC", shuffled2[2] >>,
          << "NFC", shuffled2[2], "NFC", shuffled2[3] >> >>
  ELSE ZipDivisions(shuffled1, shuffled2)

\* generate_pairings_matchups(matchup_type); shuffled1 and shuffled2 are the
\* outcomes of its two random.shuffle calls, in call order
generate_pairings_matchups(matchup_type, shuffled1, shuffled2) ==
  IF matchup_type = "intra"
  THEN PairsOfConference("AFC", shuffled1) \o PairsOfConference("NFC", shuffled2)
  ELSE ZipDivisions(shuffled1, shuffled2)

\* the validation loop of generate_pairings_matchups
PairingsValid(matchups, matchup_type) ==
  \A i \in DOMAIN matchups :
    IF matchup_type = "intra"
    THEN matchups[i][1] = matchups[i][3]
    ELSE matchups[i][1] # matchups[i][3]

Unbound == "<unbound>"

\* the search loop of find_other_divisions from list position i on
RECURSIVE OtherPaired(_, _, _, _)
OtherPaired(conference, paired_division, matchups, i) ==
  IF i > Len(matchups) THEN Unbound
  ELSE IF matchups[i][1] = conference /\ matchups[i][2] = paired_division
       THEN matchups[i][4]
  ELSE IF matchups[i][1] = conference /\ matchups[i][4] = paired_division
       THEN matchups[i][2]
  ELSE OtherPaired(conference, paired_division, matchups, i + 1)

\* a variant: the division itself is not excluded
find_other_divisions_keeps_itself(conference, paired_division, matchups) ==
  LET other_paired == OtherPaired(conference, paired_division, matchups, 1)
  IN  SelectSeq(Divisions, LAMBDA div : div # other_paired)

\* a variant: the division's own partner is not excluded
find_other_divisions_keeps_partner(conference, paired_division, matchups) ==
  SelectSeq(Divisions, LAMBDA div : div # paired_division)

find_other_divisions(conference, paired_division, matchups) ==
  LET other_paired == OtherPaired(conference, paired_division, matchups, 1)
  IN  SelectSeq(Divisions,
                LAMBDA div : div # paired_division /\ div # other_paired)

\* generate_rankings_matchups(matchups, 'intra')
generate_rankings_intra(matchups) ==
  [ key \in { DivKey(c, d) : c \in ConfSet, d \in DivSet } |->
      find_other_divisions(SplitKey(key)[1], SplitKey(key)[2], matchups) ]

\* generate_rankings_matchups(matchups, 'inter'): the current_pairs dictionary
RECURSIVE CurrentPairs(_, _, _)
CurrentPairs(matchups, i, acc) ==
  IF i > Len(matchups) THEN acc
  ELSE LET m == matchups[i]
       IN  CurrentPairs(matchups, i + 1,
             IF m[1] = "AFC"
             THEN DictSet(acc, DivKey("AFC", m[2]), DivKey("NFC", m[4]))
             ELSE DictSet(acc, DivKey("NFC", m[2]), DivKey("AFC", m[4])))

\* a variant: the currently paired NFC division stays available
AvailableNfc_keeps_current(current_pairs, afc_div, used_nfc) ==
  SelectSeq(Divisions, LAMBDA div : div \notin used_nfc)

\* available_nfc at the iteration for afc_div
AvailableNfc(current_pairs, afc_div, used_nfc) ==
  LET current_nfc == SplitKey(current_pairs[DivKey("AFC", afc_div)])[2]
  IN  SelectSeq(Divisions,
                LAMBDA div : div # current_nfc /\ div \notin used_nfc)

\* one iteration of the pairing loop of generate_rankings_matchups(., 'inter')
\* on its local variables l, with random.choice returning chosen_nfc
RankInterIteration(l, chosen_nfc) ==
  [ l EXCEPT !.used_nfc = @ \cup {chosen_nfc},
             !.rankings_pairs =
                Append(@, << "AFC", Divisions[l.i], "NFC", chosen_nfc >>),
             !.i = @ + 1 ]

----------------------------------------------------------------------------
(* schedule_maker.py *)

\* the pairing loop of get_matchups over a shuffled list of division keys
RECURSIVE MakerPairLoop(_, _, _)
MakerPairLoop(division_keys, i, acc) ==
  IF i > Len(division_keys) THEN acc
  ELSE LET div1 == division_keys[i]
           div2 == division_keys[i + 1]
       IN  MakerPairLoop(division_keys, i + 2,
                         DictSet(DictSet(acc, div1, div2), div2, div1))

\* the zip loop of get_matchups: keys[i] -> values[i]
RECURSIVE MakerZipLoop(_, _, _, _)
MakerZipLoop(keys, values, i, acc) ==
  IF i > Len(keys) \/ i > Len(values) THEN acc
  ELSE MakerZipLoop(keys, values, i + 1, DictSet(acc, keys[i], values[i]))

\* get_matchups(standings), intra-conference part; the arguments are the
\* outcomes of its random.shuffle calls for AFC and NFC, in call order
get_matchups_intra(keys_afc, keys_nfc) ==
  [ AFC |-> MakerPairLoop(keys_afc, 1, EmptyDict),
    NFC |-> MakerPairLoop(keys_nfc, 1, EmptyDict) ]

\* get_matchups(standings), inter-conference part; the arguments are the
\* outcomes of random.shuffle(afc_divisions) and random.shuffle(nfc_divisions)
get_matchups_inter(afc_divisions, nfc_divisions) ==
  [ AFC |-> MakerZipLoop(afc_divisions, nfc_divisions, 1, EmptyDict),
    NFC |-> MakerZipLoop(nfc_divisions, afc_divisions, 1, EmptyDict) ]

----------------------------------------------------------------------------
(* Table lookups of the query side (schedule_generator.py) *)

None == "None"

\* find_division_matchup(team_conf, team_div, matchups) from list position i on
RECURSIVE FindDivisionMatchupFrom(_, _, _, _)
FindDivisionMatchupFrom(team_conf, team_div, matchups, i) ==
  IF i > Len(matchups) THEN << None, None >>
  ELSE IF matchups[i][1] = team_conf /\ matchups[i][2] = team_div
       THEN << matchups[i][3], matchups[i][4] >>
  ELSE IF matchups[i][3] = team_conf /\ matchups[i][4] = team_div
       THEN << matchups[i][1], matchups[i][2] >>
  ELSE FindDivisionMatchupFrom(team_conf, team_div, matchups, i + 1)

find_division_matchup(team_conf, team_div, matchups) ==
  FindDivisionMatchupFrom(team_conf, team_div, matchups, 1)

\* the search loop of get_inter_ranking_based_opponent: opp_div
RECURSIVE InterRankingOppDivFrom(_, _, _, _)
InterRankingOppDivFrom(team_conf, team_div, rankings, i) ==
  IF i > Len(rankings) THEN Unbound
  ELSE IF rankings[i][1] = team_conf /\ rankings[i][2] = team_div
       THEN rankings[i][4]
  ELSE IF rankings[i][3] = team_conf /\ rankings[i][4] = team_div
       THEN rankings[i][2]
  ELSE InterRankingOppDivFrom(team_conf, team_div, rankings, i + 1)

InterRankingOppDiv(team_conf, team_div, rankings) ==
  InterRankingOppDivFrom(team_conf, team_div, rankings, 1)

----------------------------------------------------------------------------
(* Teams, team codes and the order of team codes *)

\* the (conference, division) pairs in the iteration order of NFL_TEAMS
ConfDivList ==
  [ k \in 1..(Len(Conferences) * Len(Divisions)) |->
      << Conferences[((k - 1) \div Len(Divisions)) + 1],
         Divisions[((k - 1) % Len(Divisions)) + 1] >> ]

\* the abbreviations of a list of team dictionaries
Abbreviations(teams) == [ i \in DOMAIN teams |-> teams[i].abbreviation ]

\* the names of a list of team dictionaries
Names(teams) == [ i \in DOMAIN teams |-> teams[i].name ]

TeamCodes ==
  UNION { Range(Abbreviations(NFL_TEAMS[c][d])) : c \in ConfSet, d \in DivSet }

\* the team codes in the order of Python's string comparison (sorted())
CodeOrder ==
  << "ARI", "ATL", "BAL", "BUF", "CAR", "CHI", "CIN", "CLE", "DAL", "DEN",
     "DET", "GB", "HOU", "IND", "JAX", "KC", "LAC", "LAR", "LV", "MIA", "MIN",
     "NE", "NO", "NYG", "NYJ", "PHI", "PIT", "SEA", "SF", "TB", "TEN", "WAS" >>

CodeIndex(code) == CHOOSE i \in DOMAIN CodeOrder : CodeOrder[i] = code

\* a < b on team codes
CodeLess(a, b) == CodeIndex(a) < CodeIndex(b)

\* tuple(sorted([a, b]))
SortedPair(a, b) == IF CodeLess(b, a) THEN << b, a >> ELSE << a, b >>

\* p < q on tuples of two team codes
PairLess(p, q) ==
  \/ CodeLess(p[1], q[1])
  \/ p[1] = q[1] /\ CodeLess(p[2], q[2])

\* sorted(pairs) of a set of tuples of two team codes
RECURSIVE SortedPairs(_)
SortedPairs(pairs) ==
  IF pairs = {} THEN << >>
  ELSE LET least == CHOOSE p \in pairs : \A q \in pairs \ {p} : PairLess(p, q)
       IN  << least >> \o SortedPairs(pairs \ {least})

\* the orders in which a set can be iterated: Python fixes none for a set of
\* tuples of strings, whose hashes differ from run to run
SetOrders(S) ==
  { h \in [ 1..Cardinality(S) -> S ] : \A p \in S : \E i \in DOMAIN h : h[i] = p }

\* list with p put in after its last element that is not greater than p
InsertSorted(list, p) ==
  LET before == SelectSeq(list, LAMBDA q : ~ PairLess(p, q))
      after == SelectSeq(list, LAMBDA q : PairLess(p, q))
  IN  before \o << p >> \o after

\* a variant: the list stays as the set was iterated
Sorted_as_iterated(list) == list

\* sorted(pairs), the set of tuples iterated in the order of list
RECURSIVE Sorted(_)
Sorted(list) ==
  IF list = << >> THEN << >>
  ELSE InsertSorted(Sorted(SubSeq(list, 1, Len(list) - 1)), list[Len(list)])

----------------------------------------------------------------------------
(* home_away_assignments.py: division games *)

\* get_division_games(team_code): the search from the k-th division on
RECURSIVE GetDivisionGamesFrom(_, _)
GetDivisionGamesFrom(code, k) ==
  IF k > Len(ConfDivList) THEN << None, None, None, None >>
  ELSE LET conference == ConfDivList[k][1]
           division == ConfDivList[k][2]
           teams == NFL_TEAMS[conference][division]
       IN  IF \E i \in DOMAIN teams : teams[i].abbreviation = code
           THEN LET first == CHOOSE i \in DOMAIN teams :
                               /\ teams[i].abbreviation = code
                               /\ \A j \in 1..(i - 1) : teams[j].abbreviation # code
                    team == teams[first]
                    opponents == Names(SelectSeq(teams, LAMBDA t : t # team))
                IN  << team.name, conference, division, opponents >>
           ELSE GetDivisionGamesFrom(code, k + 1)

\* a variant: the team itself is not excluded from its opponents
get_division_games_keeps_self(code) ==
  LET found == GetDivisionGamesFrom(code, 1)
  IN  IF found[1] = None THEN found
      ELSE << found[1], found[2], found[3], Names(NFL_TEAMS[found[2]][found[3]]) >>

\* a variant: a code of no team gets the first team of the roster
get_division_games_defaults_to_first(code) ==
  LET found == GetDivisionGamesFrom(code, 1)
  IN  IF found[1] = None
      THEN GetDivisionGamesFrom(NFL_TEAMS["AFC"]["North"][1].abbreviation, 1)
      ELSE found

get_division_games(code) == GetDivisionGamesFrom(code, 1)

\* assign_home_away_division(opponents): the two lists, and whether one of its
\* assertions fails
assign_home_away_division(opponents) ==
  LET home_games == [ i \in DOMAIN opponents |-> << opponents[i], "HOME" >> ]
      away_games == [ i \in DOMAIN opponents |-> << opponents[i], "AWAY" >> ]
      home_div_games == Len(opponents)
      away_div_games == Len(opponents)
      opponent_splits == [ o \in Range(opponents) |-> [ HOME |-> 1, AWAY |-> 1 ] ]
  IN  [ home_games |-> home_games,
        away_games |-> away_games,
        raised |-> ~ ( /\ home_div_games = 3
                       /\ away_div_games = 3
                       /\ \A o \in DOMAIN opponent_splits :
                            /\ opponent_splits[o].HOME = 1
                            /\ opponent_splits[o].AWAY = 1 ) ]

----------------------------------------------------------------------------
(* home_away_assignments.py: cross-division games *)

\* assignments[a][b] = location
SetLocation(assignments, a, b, location) ==
  [ assignments EXCEPT ![a] = DictSet(@, b, location) ]

\* table[x][y], or None where the lookup raises KeyError
LabelIn(table, x, y) ==
  IF x \in DOMAIN table /\ y \in DOMAIN table[x] THEN table[x][y] ELSE None

\* sum(1 for loc in entry.values() if loc == location)
CountLocation(entry, location) ==
  Cardinality({ o \in DOMAIN entry : entry[o] = location })

\* "if team['abbreviation'] not in assignments: assignments[...] = {}"
InitTeams(assignments, teams) ==
  DictOver(Range(Abbreviations(teams)), EmptyDict, assignments)

\* a variant: the parity test is on i alone
CrossLabel_row_parity(assignments, team1, team2, i, j) ==
  IF i % 2 = 0
  THEN SetLocation(SetLocation(assignments, team1, team2, "HOME"),
                   team2, team1, "AWAY")
  ELSE SetLocation(SetLocation(assignments, team1, team2, "AWAY"),
                   team2, team1, "HOME")

\* a variant: both teams of a game get the label of the first
CrossLabel_both_sides_alike(assignments, team1, team2, i, j) ==
  IF (i + j) % 2 = 0
  THEN SetLocation(SetLocation(assignments, team1, team2, "HOME"),
                   team2, team1, "HOME")
  ELSE SetLocation(SetLocation(assignments, team1, team2, "AWAY"),
                   team2, team1, "AWAY")

\* the body of the (i, j) loop: the parity rule
CrossLabel(assignments, team1, team2, i, j) ==
  IF (i + j) % 2 = 0
  THEN SetLocation(SetLocation(assignments, team1, team2, "HOME"),
                   team2, team1, "AWAY")
  ELSE SetLocation(SetLocation(assignments, team1, team2, "AWAY"),
                   team2, team1, "HOME")

\* the nested enumerate loops from the local variables l on: l.k counts the
\* iterations done, i = l.k \div 4 and j = l.k % 4 for divisions of 4
RECURSIVE CrossLoop(_, _, _)
CrossLoop(l, div1_teams, div2_teams) ==
  IF l.k >= Len(div1_teams) * Len(div2_teams) THEN l.assignments
  ELSE LET i == l.k \div Len(div2_teams)
           j == l.k % Len(div2_teams)
       IN  CrossLoop([ assignments |->
                         CrossLabel(l.assignments,
                                    div1_teams[i + 1].abbreviation,
                                    div2_teams[j + 1].abbreviation, i, j),
                       k |-> l.k + 1 ],
                     div1_teams, div2_teams)

\* the loop over the matchup pairs from the local variables l on: l.n is the
\* index of the next pair; teams is what NFL_TEAMS refers to
RECURSIVE CrossPairsOn(_, _, _)
CrossPairsOn(teams, l, matchups) ==
  IF l.n > Len(matchups) THEN l.assignments
  ELSE LET div1_teams == teams[matchups[l.n][1]][matchups[l.n][2]]
           div2_teams == teams[matchups[l.n][3]][matchups[l.n][4]]
       IN  CrossPairsOn(teams,
                        [ assignments |->
                            CrossLoop([ assignments |->
                                          InitTeams(l.assignments,
                                                    div1_teams \o div2_teams),
                                        k |-> 0 ],
                                      div1_teams, div2_teams),
                          n |-> l.n + 1 ],
                        matchups)

\* the same loop on the reference data as nfl_teams.py defines it
CrossPairs(l, matchups) == CrossPairsOn(NFL_TEAMS, l, matchups)

\* the verification loop: no assertion fails
CrossVerified(assignments) ==
  \A code \in DOMAIN assignments :
    /\ CountLocation(assignments[code], "HOME") = 2
    /\ CountLocation(assignments[code], "AWAY") = 2

\* a variant: only the first two pairs of the matchups are processed
generate_intra_conference_assignments_two_pairs(matchups) ==
  CrossPairs([ assignments |-> EmptyDict, n |-> 1 ], SubSeq(matchups, 1, 2))

generate_intra_conference_assignments(matchups) ==
  CrossPairs([ assignments |-> EmptyDict, n |-> 1 ], matchups)

generate_inter_conference_assignments(matchups) ==
  CrossPairs([ assignments |-> EmptyDict, n |-> 1 ], matchups)

----------------------------------------------------------------------------
(* Standings *)

\* the largest rotation of a division's roster among the modelled standings
MaxShift == 3

\* the most coin flips of one generation that come out as tails
MaxTails == 1

Ranks == 1..4

\* the order of a roster rotated by shift places
RotationOrder(shift) == [ i \in Ranks |-> ((i - 1 + shift) % 4) + 1 ]

\* a variant: every division of a conference gets the shuffled teams of North
generate_random_standings_of_north(orders) ==
  [ c \in ConfSet |->
      [ d \in DivSet |->
          [ i \in Ranks |-> NFL_TEAMS[c]["North"][orders[c][d][i]] ] ] ]

\* a variant of the loop body below: the list of NFL_TEAMS itself is shuffled
StandingsStep_in_place(l, conference, division, order) ==
  LET teams == l.nfl_teams[conference][division]
      shuffled == [ i \in DOMAIN teams |-> teams[order[i]] ]
  IN  [ l EXCEPT !.standings[conference] = DictSet(@, division, shuffled),
                 !.nfl_teams[conference][division] = shuffled ]

\* the body of the loops of generate_random_standings: teams is a copy of the
\* list of the division, a list of its own; random.shuffle(teams) puts it in
\* the given order, and it becomes the standings of the division.  l.nfl_teams
\* are the lists NFL_TEAMS refers to.
StandingsStep(l, conference, division, order) ==
  LET teams == l.nfl_teams[conference][division]
      shuffled == [ i \in DOMAIN teams |-> teams[order[i]] ]
  IN  [ l EXCEPT !.standings[conference] = DictSet(@, division, shuffled) ]

\* the loops over the conferences and divisions from the k-th division on
RECURSIVE StandingsLoop(_, _, _)
StandingsLoop(l, orders, k) ==
  IF k > Len(ConfDivList) THEN l
  ELSE StandingsLoop(StandingsStep(l, ConfDivList[k][1], ConfDivList[k][2],
                                   orders[ConfDivList[k][1]][ConfDivList[k][2]]),
                     orders, k + 1)

\* generate_random_standings() on the lists teams: the standings it returns
\* and the lists NFL_TEAMS refers to afterwards
generate_random_standings_on(teams, orders) ==
  StandingsLoop([ standings |-> [ c \in ConfSet |-> EmptyDict ],
                  nfl_teams |-> teams ],
                orders, 1)

\* generate_random_standings(): orders[c][d] is the outcome of the shuffle of
\* the copy of NFL_TEAMS[c][d]
generate_random_standings(orders) ==
  generate_random_standings_on(NFL_TEAMS, orders).standings

\* shuffle outcomes of the modelled standings: North keeps the roster order,
\* every other division is rotated, so that every choice of one team per
\* division of a conference is the group of some rank
StandingsOrders ==
  { [ c \in ConfSet |->
        [ d \in DivSet |->
            RotationOrder(IF d = "North" THEN 0 ELSE shift[d]) ] ] :
    shift \in [ DivSet \ {"North"} -> 0..MaxShift ] }

\* shuffles of the division list, one for each way to pair up the divisions
MatchingShuffles ==
  { s \in ShuffleOutcomes(Divisions) :
      /\ s[1] = "North"
      /\ \E i, j \in DOMAIN Divisions :
           i < j /\ Divisions[i] = s[3] /\ Divisions[j] = s[4] }

\* generate_rankings_matchups(matchups, 'inter'): every way it can end from
\* the local variables l on, with the list returned or with the IndexError
\* of random.choice on an empty list
RECURSIVE RankInterOutcomes(_)
RankInterOutcomes(l) ==
  IF l.i > Len(Divisions)
  THEN { [ raised |-> FALSE, rankings_pairs |-> l.rankings_pairs ] }
  ELSE LET available_nfc ==
             AvailableNfc(l.current_pairs, Divisions[l.i], l.used_nfc)
       IN  IF available_nfc = << >>
           THEN { [ raised |-> TRUE, rankings_pairs |-> l.rankings_pairs ] }
           ELSE UNION { RankInterOutcomes(RankInterIteration(l, chosen_nfc)) :
                        chosen_nfc \in Range(available_nfc) }

generate_rankings_inter_outcomes(matchups) ==
  RankInterOutcomes([ current_pairs |-> CurrentPairs(matchups, 1, EmptyDict),
                      i |-> 1,
                      used_nfc |-> {},
                      rankings_pairs |-> << >> ])

\* every list generate_rankings_matchups(matchups, 'inter') can return
generate_rankings_inter_returns(matchups) ==
  { o.rankings_pairs :
    o \in { x \in generate_rankings_inter_outcomes(matchups) : ~ x.raised } }

----------------------------------------------------------------------------
(* home_away_assignments.py: rank-based games within a conference *)

\* rank_groups[rank] of a conference: (team code, division) tuples
RankGroup(st, conference, rank) ==
  [ k \in DOMAIN Divisions |->
      << st[conference][Divisions[k]][rank].abbreviation, Divisions[k] >> ]

\* next(code for code, div in rank_groups[rank] if div == opp_div)
TeamOfDivision(rank_group, opp_div) ==
  LET first == CHOOSE k \in DOMAIN rank_group :
                 /\ rank_group[k][2] = opp_div
                 /\ \A j \in 1..(k - 1) : rank_group[j][2] # opp_div
  IN  rank_group[first][1]

\* a variant: only the first opponent division of a team is looked at
RankMatchupSet_first_opponent_only(rank_group, conference, rankings) ==
  { SortedPair(rank_group[k][1],
               TeamOfDivision(rank_group,
                              rankings[DivKey(conference, rank_group[k][2])][1])) :
    k \in DOMAIN rank_group }

\* the matchups set of a rank group
RankMatchupSet(rank_group, conference, rankings) ==
  UNION {
    { SortedPair(rank_group[k][1], TeamOfDivision(rank_group, opp_div)) :
        opp_div \in Range(rankings[DivKey(conference, rank_group[k][2])]) } :
    k \in DOMAIN rank_group }

\* the matchups set of a rank group, sorted
RankMatchups(rank_group, conference, rankings) ==
  SortedPairs(RankMatchupSet(rank_group, conference, rankings))

\* "assignments[team1].get(team2)" is truthy
Assigned(assignments, team1, team2) == team2 \in DOMAIN assignments[team1]

\* team1 hosts team2
LabelHome(l, team1, team2) ==
  [ l EXCEPT !.assignments =
               SetLocation(SetLocation(@, team1, team2, "HOME"),
                           team2, team1, "AWAY"),
             !.home_count[team1] = @ + 1,
             !.away_count[team2] = @ + 1 ]

\* team1 visits team2
LabelAway(l, team1, team2) ==
  [ l EXCEPT !.assignments =
               SetLocation(SetLocation(@, team1, team2, "AWAY"),
                           team2, team1, "HOME"),
             !.away_count[team1] = @ + 1,
             !.home_count[team2] = @ + 1 ]

\* a variant of the body of the first pass: a team without a game yet is given
\* the home game
FirstPassStep_labels_untouched(l, team1, team2) ==
  IF Assigned(l.assignments, team1, team2) THEN l
  ELSE IF l.home_count[team1] = 0 /\ l.away_count[team1] = 0
       THEN LabelHome(l, team1, team2)
  ELSE IF l.home_count[team2] = 0 /\ l.away_count[team2] = 1
       THEN LabelAway(l, team1, team2)
  ELSE l

\* the body of the first pass
FirstPassStep(l, team1, team2) ==
  IF Assigned(l.assignments, team1, team2) THEN l
  ELSE IF l.home_count[team1] = 0 /\ l.away_count[team1] = 1
       THEN LabelHome(l, team1, team2)
  ELSE IF l.home_count[team2] = 0 /\ l.away_count[team2] = 1
       THEN LabelAway(l, team1, team2)
  ELSE l

RECURSIVE FirstPass(_, _, _)
FirstPass(l, matchups, n) ==
  IF n > Len(matchups) THEN l
  ELSE FirstPass(FirstPassStep(l, matchups[n][1], matchups[n][2]),
                 matchups, n + 1)

\* a variant: the two forced branches of the second pass are exchanged
SecondPassStep_forced_exchanged(l, team1, team2) ==
  IF Assigned(l.assignments, team1, team2) THEN { l }
  ELSE IF l.home_count[team1] = 1 \/ l.away_count[team2] = 1
       THEN { LabelHome(l, team1, team2) }
  ELSE IF l.home_count[team2] = 1 \/ l.away_count[team1] = 1
       THEN { LabelAway(l, team1, team2) }
  ELSE { [ LabelHome(l, team1, team2) EXCEPT !.flips = @ + 1 ] }
         \cup ( IF l.tails < MaxTails
                THEN { [ LabelAway(l, team1, team2) EXCEPT !.flips = @ + 1,
                                                            !.tails = @ + 1,
                                                            !.tail_flips = @ \cup { l.flips } ] }
                ELSE {} )

\* a variant of the body of the second pass: the coin is flipped for every
\* matchup that has no label yet
SecondPassStep_coin_only(l, team1, team2) ==
  IF Assigned(l.assignments, team1, team2) THEN { l }
  ELSE { [ LabelHome(l, team1, team2) EXCEPT !.flips = @ + 1 ] }
         \cup ( IF l.tails < MaxTails
                THEN { [ LabelAway(l, team1, team2) EXCEPT !.flips = @ + 1,
                                                            !.tails = @ + 1,
                                                            !.tail_flips = @ \cup { l.flips } ] }
                ELSE {} )

\* a variant of the body of the second pass: the flip of the coin always comes
\* out as heads
SecondPassStep_always_heads(l, team1, team2) ==
  IF Assigned(l.assignments, team1, team2) THEN { l }
  ELSE IF l.home_count[team1] = 1 \/ l.away_count[team2] = 1
       THEN { LabelAway(l, team1, team2) }
  ELSE IF l.home_count[team2] = 1 \/ l.away_count[team1] = 1
       THEN { LabelHome(l, team1, team2) }
  ELSE { [ LabelHome(l, team1, team2) EXCEPT !.flips = @ + 1 ] }

\* a variant of the body of the second pass: the coin is flipped whenever
\* team1 has no game yet
SecondPassStep_coin_for_team1(l, team1, team2) ==
  IF Assigned(l.assignments, team1, team2) THEN { l }
  ELSE IF l.home_count[team1] = 0 /\ l.away_count[team1] = 0
       THEN { [ LabelHome(l, team1, team2) EXCEPT !.flips = @ + 1 ] }
              \cup ( IF l.tails < MaxTails
                     THEN { [ LabelAway(l, team1, team2) EXCEPT !.flips = @ + 1,
                                                                 !.tails = @ + 1,
                                                                 !.tail_flips = @ \cup { l.flips } ] }
                     ELSE {} )
  ELSE IF l.home_count[team1] = 1 \/ l.away_count[team2] = 1
       THEN { LabelAway(l, team1, team2) }
  ELSE { LabelHome(l, team1, team2) }

\* the body of the second pass: every outcome, one for each result of
\* "random.random() < 0.5" where the coin is flipped; l.tail_flips are the flips
\* (counted from 0) that came out as tails
SecondPassStep(l, team1, team2) ==
  IF Assigned(l.assignments, team1, team2) THEN { l }
  ELSE IF l.home_count[team1] = 1 \/ l.away_count[team2] = 1
       THEN { LabelAway(l, team1, team2) }
  ELSE IF l.home_count[team2] = 1 \/ l.away_count[team1] = 1
       THEN { LabelHome(l, team1, team2) }
  ELSE { [ LabelHome(l, team1, team2) EXCEPT !.flips = @ + 1 ] }
         \cup ( IF l.tails < MaxTails
                THEN { [ LabelAway(l, team1, team2) EXCEPT !.flips = @ + 1,
                                                            !.tails = @ + 1,
                                                            !.tail_flips = @ \cup { l.flips } ] }
                ELSE {} )

RECURSIVE SecondPass(_, _, _)
SecondPass(ls, matchups, n) ==
  IF n > Len(matchups) THEN ls
  ELSE SecondPass(UNION { SecondPassStep(l, matchups[n][1], matchups[n][2]) :
                          l \in ls },
                  matchups, n + 1)

\* one rank group: counters, matchups, both passes and the assertions
RankGroupOutcomes(l, rank_group, conference, rankings) ==
  LET codes == { rank_group[k][1] : k \in DOMAIN rank_group }
      begin == [ l EXCEPT !.home_count = DictOver(codes, 0, EmptyDict),
                          !.away_count = DictOver(codes, 0, EmptyDict) ]
      matchups == RankMatchups(rank_group, conference, rankings)
      first == FirstPass(begin, matchups, 1)
  IN  { [ s EXCEPT !.first_pass_labels =
                     @ + Cardinality({ n \in DOMAIN matchups :
                           Assigned(first.assignments,
                                    matchups[n][1], matchups[n][2]) }),
                   !.raised = \E t \in codes :
                                \/ s.home_count[t] # 1
                                \/ s.away_count[t] # 1 ] :
        s \in SecondPass({ first }, matchups, 1) }

\* "assignments[team['abbreviation']] = {}" for the teams of a conference
ResetConference(assignments, st, conference) ==
  LET codes == UNION { Range(Abbreviations(st[conference][d])) : d \in DivSet }
  IN  DictOver(codes, EmptyDict, EmptyDict) @@ assignments

\* the loops over the conferences and the rank groups: g.done groups are
\* done, g.outcomes are the local variables the function can have by then
RECURSIVE IntraRankLoop(_, _, _)
IntraRankLoop(g, st, rankings) ==
  IF g.done >= Len(Conferences) * Cardinality(Ranks) THEN g.outcomes
  ELSE LET conference == Conferences[(g.done \div Cardinality(Ranks)) + 1]
           rank == (g.done % Cardinality(Ranks)) + 1
           Enter(l) == IF rank = 1
                       THEN [ l EXCEPT !.assignments =
                                ResetConference(@, st, conference) ]
                       ELSE l
       IN  IntraRankLoop(
             [ outcomes |->
                 UNION { IF l.raised THEN { l }
                         ELSE RankGroupOutcomes(Enter(l),
                                RankGroup(st, conference, rank),
                                conference, rankings) :
                         l \in g.outcomes },
               done |-> g.done + 1 ],
             st, rankings)

\* verify_intra_rank_assignments(assignments): no assertion fails
verify_intra_rank_assignments(assignments) ==
  \A code \in DOMAIN assignments :
    /\ CountLocation(assignments[code], "HOME") = 1
    /\ CountLocation(assignments[code], "AWAY") = 1
    /\ \A opp_code \in DOMAIN assignments[code] :
         /\ opp_code \in DOMAIN assignments
         /\ code \in DOMAIN assignments[opp_code]
         /\ assignments[opp_code][code] # assignments[code][opp_code]

\* home_away_assignments.generate_intra_rank_assignments: every outcome
ha_generate_intra_rank_assignments(st, rankings) ==
  { [ assignments |-> l.assignments,
      flips |-> l.flips,
      tails |-> l.tails,
      tail_flips |-> l.tail_flips,
      first_pass_labels |-> l.first_pass_labels,
      raised |-> l.raised \/ ~ verify_intra_rank_assignments(l.assignments) ] :
    l \in IntraRankLoop([ outcomes |-> { [ assignments |-> EmptyDict,
                                           home_count |-> EmptyDict,
                                           away_count |-> EmptyDict,
                                           flips |-> 0,
                                           tails |-> 0,
                                           tail_flips |-> {},
                                           first_pass_labels |-> 0,
                                           raised |-> FALSE ] },
                          done |-> 0 ],
                        st, rankings) }

----------------------------------------------------------------------------
(* home_away_assignments.py: rank-based games between the conferences *)

\* a variant: the AFC team is HOME whatever the flag says
InterRankLabel_afc_always_home(assignments, afc_team, nfc_team, hosts) ==
  DictSet(DictSet(assignments,
                  afc_team.abbreviation,
                  [ opponent |-> nfc_team.abbreviation, location |-> "HOME" ]),
          nfc_team.abbreviation,
          [ opponent |-> afc_team.abbreviation, location |-> "AWAY" ])

\* the two entries of one game
InterRankLabel(assignments, afc_team, nfc_team, hosts) ==
  DictSet(DictSet(assignments,
                  afc_team.abbreviation,
                  [ opponent |-> nfc_team.abbreviation,
                    location |-> IF hosts THEN "HOME" ELSE "AWAY" ]),
          nfc_team.abbreviation,
          [ opponent |-> afc_team.abbreviation,
            location |-> IF hosts THEN "AWAY" ELSE "HOME" ])

\* the loops over the division pairings and range(4) from the local
\* variables l on: l.k games are done
RECURSIVE InterRankLoop(_, _, _, _)
InterRankLoop(l, st, rankings, hosts) ==
  IF l.k >= Len(rankings) * Cardinality(Ranks) THEN l.assignments
  ELSE LET m == rankings[(l.k \div Cardinality(Ranks)) + 1]
           rank == (l.k % Cardinality(Ranks)) + 1
           team1 == st[m[1]][m[2]][rank]
           team2 == st[m[3]][m[4]][rank]
           afc_team == IF team1.conference = "AFC" THEN team1 ELSE team2
           nfc_team == IF team1.conference = "AFC" THEN team2 ELSE team1
       IN  InterRankLoop([ assignments |->
                             InterRankLabel(l.assignments, afc_team, nfc_team, hosts),
                           k |-> l.k + 1 ],
                         st, rankings, hosts)

\* division_homes as counted from the assignments
DivisionHomes(assignments) ==
  [ c \in ConfSet |->
      [ d \in DivSet |->
          Cardinality({ code \in DOMAIN assignments :
                          /\ assignments[code].location = "HOME"
                          /\ code \in Range(Abbreviations(NFL_TEAMS[c][d])) }) ] ]

\* verify_inter_rank_assignments(...): no assertion (or lookup) fails
verify_inter_rank_assignments(assignments, conference_homes, division_homes, hosts) ==
  LET hosting_conf == IF hosts THEN "AFC" ELSE "NFC"
      visiting_conf == IF hosts THEN "NFC" ELSE "AFC"
      teams_assigned == (DOMAIN assignments)
                          \cup { assignments[t].opponent : t \in DOMAIN assignments }
  IN  /\ Cardinality(DOMAIN assignments) = 32
      /\ \A team \in DOMAIN assignments :
           /\ assignments[team].opponent \in DOMAIN assignments
           /\ assignments[assignments[team].opponent].opponent = team
           /\ assignments[assignments[team].opponent].location
                # assignments[team].location
      /\ Cardinality(teams_assigned) = 32
      /\ conference_homes[hosting_conf] = 16
      /\ conference_homes[visiting_conf] = 0
      /\ \A d \in DivSet : division_homes[hosting_conf][d] = 4
      /\ \A d \in DivSet : division_homes[visiting_conf][d] = 0

\* home_away_assignments.generate_inter_rank_assignments
ha_generate_inter_rank_assignments(st, rankings, hosts) ==
  LET assignments == InterRankLoop([ assignments |-> EmptyDict, k |-> 0 ],
                                   st, rankings, hosts)
      conference_homes == [ c \in ConfSet |->
                              IF c = (IF hosts THEN "AFC" ELSE "NFC")
                              THEN 16 ELSE 0 ]
  IN  [ assignments |-> assignments,
        raised |-> ~ verify_inter_rank_assignments(assignments, conference_homes,
                                                   DivisionHomes(assignments), hosts) ]

----------------------------------------------------------------------------
(* schedule_generator.py: rank-based games within a conference *)

\* the calls of random.random() of one generation, numbered from 0: at most
\* one for each of the 32 pairs collected and one for each of the at most 16
\* matchups processed while neither team has a game
SGCalls == 0..47

\* sets of at most n calls
RECURSIVE CallSets(_)
CallSets(n) ==
  IF n = 0 THEN { {} }
  ELSE CallSets(n - 1) \cup { S \cup { i } : S \in CallSets(n - 1), i \in SGCalls }

\* the calls of random.random() that return 0.5 or more
TailsOutcomes == CallSets(MaxTails)

\* "random.random() < 0.5" at the next call, by the local variables l
Heads(l, tails) == l.calls \notin tails

\* a team seen for the first time gets its counters
SGSeen(l, code) ==
  IF code \in DOMAIN l.total_games THEN l
  ELSE [ l EXCEPT !.total_games = DictSet(@, code, 0),
                  !.home_games = DictSet(@, code, 0),
                  !.away_games = DictSet(@, code, 0) ]

\* the body of the opponent loop of the matchup collection
SGCollectStep(l, code, opp_code, tails) ==
  LET pair == SortedPair(code, opp_code)
  IN  IF pair \in l.processed_pairs THEN SGSeen(l, opp_code)
      ELSE [ SGSeen(l, opp_code) EXCEPT
               !.matchups = Append(@, IF Heads(l, tails)
                                      THEN << code, opp_code >>
                                      ELSE << opp_code, code >>),
               !.processed_pairs = @ \cup { pair },
               !.calls = @ + 1 ]

\* the opponent loop of the matchup collection for one team
RECURSIVE SGCollectOpponents(_, _, _, _, _, _, _)
SGCollectOpponents(l, st, conference, code, rank, opp_divs, tails) ==
  IF opp_divs = << >> THEN l
  ELSE SGCollectOpponents(
         SGCollectStep(l, code,
                       st[conference][Head(opp_divs)][rank].abbreviation, tails),
         st, conference, code, rank, Tail(opp_divs), tails)

\* the collection loops over conference, division and rank: g.done teams are
\* done, g.l are the local variables of the function
RECURSIVE SGCollect(_, _, _, _)
SGCollect(g, st, rankings, tails) ==
  IF g.done >= Len(Conferences) * Len(Divisions) * Cardinality(Ranks) THEN g.l
  ELSE LET conference ==
             Conferences[(g.done \div (Len(Divisions) * Cardinality(Ranks))) + 1]
           division ==
             Divisions[((g.done \div Cardinality(Ranks)) % Len(Divisions)) + 1]
           rank == (g.done % Cardinality(Ranks)) + 1
           code == st[conference][division][rank].abbreviation
       IN  SGCollect([ l |-> SGCollectOpponents(SGSeen(g.l, code),
                                                st, conference, code, rank,
                                                rankings[DivKey(conference, division)],
                                                tails),
                       done |-> g.done + 1 ],
                     st, rankings, tails)

\* a list with its k-th element moved to the front
MoveToFront(list, k) ==
  << list[k] >> \o SubSeq(list, 1, k - 1) \o SubSeq(list, k + 1, Len(list))

\* random.shuffle(matchups): the modelled outcomes are the list as collected
\* (move = 1) and every list with one matchup moved to the front
SGShuffleMoves == 1..32

\* team1 hosts team2
SGLabelHome(l, team1, team2) ==
  [ l EXCEPT !.assignments =
               SetLocation(SetLocation(@, team1, team2, "HOME"),
                           team2, team1, "AWAY"),
             !.home_games[team1] = @ + 1,
             !.away_games[team2] = @ + 1 ]

\* team1 visits team2
SGLabelAway(l, team1, team2) ==
  [ l EXCEPT !.assignments =
               SetLocation(SetLocation(@, team1, team2, "AWAY"),
                           team2, team1, "HOME"),
             !.away_games[team1] = @ + 1,
             !.home_games[team2] = @ + 1 ]

\* a variant of case 2: the branch for team2 is left out
SGBalanceRule_team2_rule_dropped(l, team1, team2) ==
  IF l.home_games[team1] = 0 /\ l.away_games[team2] = 0
  THEN SGLabelHome(l, team1, team2)
  ELSE [ ( IF l.total_games[team1] < l.total_games[team2]
           THEN SGLabelHome(l, team1, team2)
           ELSE SGLabelAway(l, team1, team2) )
         EXCEPT !.fallbacks = @ + 1 ]

\* case 2 of the processing loop: one of the teams has a game already
SGBalanceRule(l, team1, team2) ==
  IF l.home_games[team1] = 0 /\ l.away_games[team2] = 0
  THEN SGLabelHome(l, team1, team2)
  ELSE IF l.home_games[team2] = 0 /\ l.away_games[team1] = 0
  THEN SGLabelAway(l, team1, team2)
  ELSE [ ( IF l.total_games[team1] < l.total_games[team2]
           THEN SGLabelHome(l, team1, team2)
           ELSE SGLabelAway(l, team1, team2) )
         EXCEPT !.fallbacks = @ + 1 ]

\* the body of the processing loop
SGProcessStep(l, team1, team2, tails) ==
  LET labelled ==
        IF l.total_games[team1] = 0 /\ l.total_games[team2] = 0
        THEN [ ( IF Heads(l, tails)
                 THEN SGLabelHome(l, team1, team2)
                 ELSE SGLabelAway(l, team1, team2) )
               EXCEPT !.calls = @ + 1 ]
        ELSE SGBalanceRule(l, team1, team2)
  IN  [ labelled EXCEPT !.total_games[team1] = @ + 1,
                        !.total_games[team2] = @ + 1 ]

\* the processing loop: g.done matchups are done
RECURSIVE SGProcess(_, _, _)
SGProcess(g, matchups, tails) ==
  IF g.done >= Len(matchups) THEN g.l
  ELSE SGProcess([ l |-> SGProcessStep(g.l, matchups[g.done + 1][1],
                                            matchups[g.done + 1][2], tails),
                   done |-> g.done + 1 ],
                 matchups, tails)

\* the verification loop: no assertion (or lookup) fails
SGIntraRankVerified(l) ==
  \A code \in DOMAIN l.assignments :
    /\ l.total_games[code] = 2
    /\ l.home_games[code] = 1
    /\ l.away_games[code] = 1
    /\ \A opp_code \in DOMAIN l.assignments[code] :
         /\ opp_code \in DOMAIN l.assignments
         /\ code \in DOMAIN l.assignments[opp_code]
         /\ l.assignments[opp_code][code] # l.assignments[code][opp_code]

\* the end of the function: the assignments, or a failed assertion
SGIntraRankReturn(l, tails) ==
  [ assignments |-> l.assignments,
    matchups |-> l.matchups,
    calls |-> l.calls,
    tails |-> Cardinality({ i \in tails : i < l.calls }),
    fallbacks |-> l.fallbacks,
    raised |-> ~ SGIntraRankVerified(l) ]

\* from the collected matchups on: the empty assignments, the shuffle that
\* moves the move-th matchup to the front, and the processing loop
SGShuffleAndProcess(collected, tails, move) ==
  SGIntraRankReturn(
    SGProcess([ l |-> [ collected EXCEPT
                          !.assignments = DictOver(DOMAIN collected.total_games,
                                                   EmptyDict, EmptyDict),
                          !.matchups = MoveToFront(@, move) ],
                done |-> 0 ],
              MoveToFront(collected.matchups, move), tails),
    tails)

\* schedule_generator.generate_intra_rank_assignments, with the calls of
\* random.random() in tails returning 0.5 or more and random.shuffle moving
\* the move-th matchup to the front
sg_generate_intra_rank_assignments(st, rankings, tails, move) ==
  SGShuffleAndProcess(
    SGCollect([ l |-> [ assignments |-> EmptyDict,
                        processed_pairs |-> {},
                        total_games |-> EmptyDict,
                        home_games |-> EmptyDict,
                        away_games |-> EmptyDict,
                        matchups |-> << >>,
                        calls |-> 0,
                        fallbacks |-> 0 ],
                done |-> 0 ],
              st, rankings, tails),
    tails, move)

----------------------------------------------------------------------------
(* schedule_generator.py: rank-based games between the conferences *)

\* the matchups collected from the rankings, in order
SGInterMatchups(st, rankings) ==
  [ k \in 1..(Len(rankings) * Cardinality(Ranks)) |->
      LET m == rankings[((k - 1) \div Cardinality(Ranks)) + 1]
          rank == ((k - 1) % Cardinality(Ranks)) + 1
      IN  [ team1 |-> [ code |-> st[m[1]][m[2]][rank].abbreviation,
                        conf |-> m[1], div |-> m[2] ],
            team2 |-> [ code |-> st[m[3]][m[4]][rank].abbreviation,
                        conf |-> m[3], div |-> m[4] ] ] ]

\* the home game of a matchup goes to host
SGInterGiveHome(l, team1, team2, host) ==
  [ l EXCEPT
      !.assignments =
         DictSet(DictSet(@, team1.code,
                         [ opponent |-> team2.code,
                           location |-> IF host = team1 THEN "HOME" ELSE "AWAY" ]),
                 team2.code,
                 [ opponent |-> team1.code,
                   location |-> IF host = team1 THEN "AWAY" ELSE "HOME" ]),
      !.division_homes[host.conf][host.div] = @ + 1,
      !.conference_homes[host.conf] = @ + 1 ]

SGInterProcessed(l, team1, team2) ==
  [ l EXCEPT !.processed_teams = @ \cup { team1.code, team2.code } ]

\* a variant of the body of the first pass: where both divisions need a home
\* game it goes to team2
SGInterFirstPassStep_team2_when_both(l, team1, team2) ==
  IF team1.code \in l.processed_teams \/ team2.code \in l.processed_teams THEN l
  ELSE LET div1_needs_home == l.division_homes[team1.conf][team1.div] < 2
           div2_needs_home == l.division_homes[team2.conf][team2.div] < 2
       IN  IF div1_needs_home /\ ~ div2_needs_home
           THEN SGInterProcessed(SGInterGiveHome(l, team1, team2, team1),
                                 team1, team2)
           ELSE IF div2_needs_home
           THEN SGInterProcessed(SGInterGiveHome(l, team1, team2, team2),
                                 team1, team2)
           ELSE l

\* the body of the first pass
SGInterFirstPassStep(l, team1, team2) ==
  IF team1.code \in l.processed_teams \/ team2.code \in l.processed_teams THEN l
  ELSE LET div1_needs_home == l.division_homes[team1.conf][team1.div] < 2
           div2_needs_home == l.division_homes[team2.conf][team2.div] < 2
       IN  IF div1_needs_home /\ ~ div2_needs_home
           THEN SGInterProcessed(SGInterGiveHome(l, team1, team2, team1),
                                 team1, team2)
           ELSE IF div2_needs_home /\ ~ div1_needs_home
           THEN SGInterProcessed(SGInterGiveHome(l, team1, team2, team2),
                                 team1, team2)
           ELSE l

\* a variant of the body of the second pass: every home game goes to team2
SGInterSecondPassStep_always_team2(l, team1, team2) ==
  IF team1.code \in l.processed_teams \/ team2.code \in l.processed_teams THEN l
  ELSE SGInterProcessed(SGInterGiveHome(l, team1, team2, team2), team1, team2)

\* the body of the second pass
SGInterSecondPassStep(l, team1, team2) ==
  IF team1.code \in l.processed_teams \/ team2.code \in l.processed_teams THEN l
  ELSE LET conf1_can_home == l.conference_homes[team1.conf] < 8
           conf2_can_home == l.conference_homes[team2.conf] < 8
           div1_can_home == l.division_homes[team1.conf][team1.div] < 2
           div2_can_home == l.division_homes[team2.conf][team2.div] < 2
       IN  SGInterProcessed(
             IF conf1_can_home /\ div1_can_home
                  /\ ~ (conf2_can_home /\ div2_can_home)
             THEN SGInterGiveHome(l, team1, team2, team1)
             ELSE SGInterGiveHome(l, team1, team2, team2),
             team1, team2)

\* one pass over the matchups: g.done matchups are done; pass is 1 or 2
RECURSIVE SGInterPass(_, _, _)
SGInterPass(g, matchups, pass) ==
  IF g.done >= Len(matchups) THEN g.l
  ELSE LET matchup == matchups[g.done + 1]
       IN  SGInterPass([ l |-> IF pass = 1
                               THEN SGInterFirstPassStep(g.l, matchup.team1,
                                                         matchup.team2)
                               ELSE SGInterSecondPassStep(g.l, matchup.team1,
                                                          matchup.team2),
                         done |-> g.done + 1 ],
                       matchups, pass)

\* schedule_generator.verify_inter_rank_assignments: no assertion (or lookup)
\* fails
sg_verify_inter_rank_assignments(assignments, conference_homes, division_homes) ==
  LET teams_assigned == (DOMAIN assignments)
                          \cup { assignments[t].opponent : t \in DOMAIN assignments }
  IN  /\ Cardinality(DOMAIN assignments) = 32
      /\ \A team \in DOMAIN assignments :
           /\ assignments[team].opponent \in DOMAIN assignments
           /\ assignments[assignments[team].opponent].opponent = team
           /\ assignments[assignments[team].opponent].location
                # assignments[team].location
      /\ Cardinality(teams_assigned) = 32
      /\ \A conf \in DOMAIN conference_homes : conference_homes[conf] = 8
      /\ \A conf \in DOMAIN division_homes :
           \A div \in DOMAIN division_homes[conf] : division_homes[conf][div] = 2

\* the end of the function: the assignments, or a failed assertion
SGInterRankReturn(l) ==
  [ assignments |-> l.assignments,
    raised |-> ~ sg_verify_inter_rank_assignments(l.assignments,
                                                  l.conference_homes,
                                                  l.division_homes) ]

\* the two passes over the matchups
SGInterPasses(l, matchups) ==
  SGInterRankReturn(
    SGInterPass([ l |-> SGInterPass([ l |-> l, done |-> 0 ], matchups, 1),
                  done |-> 0 ],
                matchups, 2))

\* schedule_generator.generate_inter_rank_assignments(standings, inter_rankings)
sg_generate_inter_rank_assignments(st, rankings) ==
  SGInterPasses([ assignments |-> EmptyDict,
                  conference_homes |-> [ c \in ConfSet |-> 0 ],
                  division_homes |-> [ c \in ConfSet |-> [ d \in DivSet |-> 0 ] ],
                  processed_teams |-> {} ],
                SGInterMatchups(st, rankings))

----------------------------------------------------------------------------
(* schedule_generator.py: the schedule of one team *)

\* get_teams_in_division(conference, division)
get_teams_in_division(conference, division) ==
  Names(NFL_TEAMS[conference][division])

\* get_team_rank(team_name, standings): the search from the k-th division on
RECURSIVE GetTeamRankFrom(_, _, _)
GetTeamRankFrom(team_name, st, k) ==
  IF k > Len(ConfDivList) THEN None
  ELSE LET teams == st[ConfDivList[k][1]][ConfDivList[k][2]]
       IN  IF \E rank \in DOMAIN teams : teams[rank].name = team_name
           THEN CHOOSE rank \in DOMAIN teams :
                  /\ teams[rank].name = team_name
                  /\ \A r \in 1..(rank - 1) : teams[r].name # team_name
           ELSE GetTeamRankFrom(team_name, st, k + 1)

get_team_rank(team_name, st) == GetTeamRankFrom(team_name, st, 1)

\* get_intra_ranking_based_opponents(...)
get_intra_ranking_based_opponents(team_conf, team_div, team_rank, st, rankings) ==
  LET opponent_divisions == rankings[DivKey(team_conf, team_div)]
  IN  [ i \in DOMAIN opponent_divisions |->
          st[team_conf][opponent_divisions[i]][team_rank].name ]

\* a variant: the opponent is the first team of the paired division
get_inter_ranking_based_opponent_first_of_division(team_conf, team_div, team_rank, st, rankings) ==
  LET opp_conf == IF team_conf = "AFC" THEN "NFC" ELSE "AFC"
      opp_div == InterRankingOppDiv(team_conf, team_div, rankings)
  IN  st[opp_conf][opp_div][1].name

\* get_inter_ranking_based_opponent(...)
get_inter_ranking_based_opponent(team_conf, team_div, team_rank, st, rankings) ==
  LET opp_conf == IF team_conf = "AFC" THEN "NFC" ELSE "AFC"
      opp_div == InterRankingOppDiv(team_conf, team_div, rankings)
  IN  st[opp_conf][opp_div][team_rank].name

\* find_inter_ranking_division(conf, div, inter_rankings); None where the
\* loop ends without a return
find_inter_ranking_division(conf, div, rankings) ==
  LET found == InterRankingOppDiv(conf, div, rankings)
  IN  IF found = Unbound THEN None ELSE found

\* the opponent_codes dictionary of the get_*_games functions, as the list of
\* its (name, code) items: the names found among the teams of conference conf
RECURSIVE OpponentCodes(_, _, _)
OpponentCodes(conf, opponent_names, acc) ==
  IF opponent_names = << >> THEN acc
  ELSE LET name == Head(opponent_names)
           hits == { t \in UNION { Range(NFL_TEAMS[conf][d]) : d \in DivSet } :
                       t.name = name }
           known == \E i \in DOMAIN acc : acc[i][1] = name
       IN  OpponentCodes(conf, Tail(opponent_names),
             IF hits = {} \/ known THEN acc
             ELSE Append(acc, << name, (CHOOSE t \in hits : TRUE).abbreviation >>))

\* a variant of the loop below that appends nothing to away_games
GamesFromTable_away_omitted(table, code, opponent_codes) ==
  LET home == SelectSeq(opponent_codes,
                        LAMBDA item : LabelIn(table, code, item[2]) = "HOME")
  IN  [ home_games |-> [ i \in DOMAIN home |-> << home[i][1], "HOME" >> ],
        away_games |-> << >>,
        raised |-> \E i \in DOMAIN opponent_codes :
                     LabelIn(table, code, opponent_codes[i][2]) = None ]

\* the loop over opponent_codes.items() of get_intra_conference_games,
\* get_inter_conference_games and get_intra_rank_games
GamesFromTable(table, code, opponent_codes) ==
  LET home == SelectSeq(opponent_codes,
                        LAMBDA item : LabelIn(table, code, item[2]) = "HOME")
      away == SelectSeq(opponent_codes,
                        LAMBDA item : LabelIn(table, code, item[2]) # "HOME")
  IN  [ home_games |-> [ i \in DOMAIN home |-> << home[i][1], "HOME" >> ],
        away_games |-> [ i \in DOMAIN away |-> << away[i][1], "AWAY" >> ],
        raised |-> \E i \in DOMAIN opponent_codes :
                     LabelIn(table, code, opponent_codes[i][2]) = None ]

get_intra_conference_games(table, code, intra_conf_teams) ==
  GamesFromTable(table, code,
                 OpponentCodes(get_division_games(code)[2], intra_conf_teams, << >>))

get_inter_conference_games(table, code, inter_conf_teams) ==
  GamesFromTable(table, code,
                 OpponentCodes(IF get_division_games(code)[2] = "AFC"
                               THEN "NFC" ELSE "AFC",
                               inter_conf_teams, << >>))

\* get_intra_rank_games(team_code, intra_rank_opponents), with its assertions
get_intra_rank_games(table, code, intra_rank_opponents) ==
  LET games == GamesFromTable(table, code,
                 OpponentCodes(get_division_games(code)[2],
                               intra_rank_opponents, << >>))
  IN  [ games EXCEPT !.raised = @ \/ Len(games.home_games) # 1
                                 \/ Len(games.away_games) # 1 ]

\* a variant: the game is listed as a home game whatever the table says
get_inter_rank_games_always_home(table, code, inter_rank_opponent) ==
  IF code \notin DOMAIN table
  THEN [ home_games |-> << >>, away_games |-> << >>, raised |-> TRUE ]
  ELSE [ home_games |-> << << inter_rank_opponent, "HOME" >> >>,
         away_games |-> << >>, raised |-> FALSE ]

\* get_inter_rank_games(team_code, inter_rank_opponent)
get_inter_rank_games(table, code, inter_rank_opponent) ==
  IF code \notin DOMAIN table
  THEN [ home_games |-> << >>, away_games |-> << >>, raised |-> TRUE ]
  ELSE IF table[code].location = "HOME"
  THEN [ home_games |-> << << inter_rank_opponent, "HOME" >> >>,
         away_games |-> << >>, raised |-> FALSE ]
  ELSE [ home_games |-> << >>,
         away_games |-> << << inter_rank_opponent, "AWAY" >> >>,
         raised |-> FALSE ]

\* print_team_schedule(...): the lists it prints and its totals, on the four
\* tables t
print_team_schedule(t, code, opponents, intra_conf, intra_div, inter_conf, inter_div, intra_rank_opponents, inter_rank_opponent) ==
  LET division == assign_home_away_division(opponents)
      intra == get_intra_conference_games(t[1], code,
                 get_teams_in_division(intra_conf, intra_div))
      inter == get_inter_conference_games(t[2], code,
                 get_teams_in_division(inter_conf, inter_div))
      intra_rank == get_intra_rank_games(t[3], code, intra_rank_opponents)
      inter_rank == get_inter_rank_games(t[4], code, inter_rank_opponent)
      total_home == Len(division.home_games) + Len(intra.home_games)
                      + Len(inter.home_games) + Len(intra_rank.home_games)
                      + Len(inter_rank.home_games)
      total_away == Len(division.away_games) + Len(intra.away_games)
                      + Len(inter.away_games) + Len(intra_rank.away_games)
                      + Len(inter_rank.away_games)
  IN  [ division |-> division.home_games \o division.away_games,
        intra_conference |-> intra.home_games \o intra.away_games,
        inter_conference |-> inter.home_games \o inter.away_games,
        intra_rank |-> intra_rank.home_games \o intra_rank.away_games,
        inter_rank |-> inter_rank.home_games \o inter_rank.away_games,
        total_home |-> total_home,
        total_away |-> total_away,
        total_games |-> total_home + total_away,
        raised |-> division.raised \/ intra.raised \/ inter.raised
                     \/ intra_rank.raised \/ inter_rank.raised ]

\* the body of the query loop of main() for a team code that is found
TeamQuery(code, found, st, pairings, rankings, t) ==
  LET rank == get_team_rank(found[1], st)
      intra == find_division_matchup(found[2], found[3], pairings[1])
      inter == find_division_matchup(found[2], found[3], pairings[2])
  IN  print_team_schedule(t, code, found[4], intra[1], intra[2], inter[1], inter[2],
        get_intra_ranking_based_opponents(found[2], found[3], rank, st, rankings[1]),
        get_inter_ranking_based_opponent(found[2], found[3], rank, st, rankings[2]))

----------------------------------------------------------------------------
(* Initial state: nothing generated yet *)

Init ==
  /\ pc = "start"
  /\ standings = EmptyDict
  /\ intra_matchups = << >>
  /\ inter_matchups = << >>
  /\ intra_rankings = EmptyDict
  /\ inter_rankings = << >>
  /\ locals = EmptyDict
  /\ intra_conf_pairing = EmptyDict
  /\ inter_conf_pairing = EmptyDict
  /\ INTRA_CONF_ASSIGNMENTS = EmptyDict
  /\ INTER_CONF_ASSIGNMENTS = EmptyDict
  /\ INTRA_RANK_ASSIGNMENTS = EmptyDict
  /\ INTER_RANK_ASSIGNMENTS = EmptyDict
  /\ afc_hosts = None
  /\ team_code = None
  /\ schedule = None
  /\ nfl_teams = NFL_TEAMS

----------------------------------------------------------------------------
(* Pairing generation and rank-matchup derivation, function by function *)

GeneratePairingsIntra ==
  /\ pc = "start"
  /\ \E s1 \in ShuffleOutcomes(Divisions), s2 \in ShuffleOutcomes(Divisions) :
       LET m == generate_pairings_matchups("intra", s1, s2)
       IN  IF PairingsValid(m, "intra")
           THEN intra_matchups' = m /\ pc' = "intra_paired"
           ELSE intra_matchups' = intra_matchups /\ pc' = "AssertionError"
  /\ UNCHANGED << standings, inter_matchups, intra_rankings, inter_rankings,
                  locals, intra_conf_pairing, inter_conf_pairing,
                  tables, afc_hosts, asked, nfl_teams >>

GeneratePairingsInter ==
  /\ pc = "start"
  /\ \E s1 \in ShuffleOutcomes(Divisions), s2 \in ShuffleOutcomes(Divisions) :
       LET m == generate_pairings_matchups("inter", s1, s2)
       IN  IF PairingsValid(m, "inter")
           THEN inter_matchups' = m /\ pc' = "inter_paired"
           ELSE inter_matchups' = inter_matchups /\ pc' = "AssertionError"
  /\ UNCHANGED << standings, intra_matchups, intra_rankings, inter_rankings,
                  locals, intra_conf_pairing, inter_conf_pairing,
                  tables, afc_hosts, asked, nfl_teams >>

GenerateRankingsIntra ==
  /\ pc = "intra_paired"
  /\ intra_rankings' = generate_rankings_intra(intra_matchups)
  /\ pc' = "intra_ranked"
  /\ UNCHANGED << standings, intra_matchups, inter_matchups, inter_rankings,
                  locals, intra_conf_pairing, inter_conf_pairing,
                  tables, afc_hosts, asked, nfl_teams >>

\* generate_rankings_matchups(inter_matchups, 'inter') up to its pairing loop
GenerateRankingsInterBegin ==
  /\ pc = "inter_paired"
  /\ locals' = [ current_pairs |-> CurrentPairs(inter_matchups, 1, EmptyDict),
                 i |-> 1,
                 used_nfc |-> {},
                 rankings_pairs |-> << >> ]
  /\ pc' = "inter_ranking"
  /\ UNCHANGED << standings, intra_matchups, inter_matchups, intra_rankings,
                  inter_rankings, intra_conf_pairing, inter_conf_pairing,
                  tables, afc_hosts, asked, nfl_teams >>

\* one iteration: random.choice(available_nfc) returns any element
GenerateRankingsInterChoose ==
  /\ pc = "inter_ranking"
  /\ locals.i <= Len(Divisions)
  /\ LET available_nfc ==
           AvailableNfc(locals.current_pairs, Divisions[locals.i], locals.used_nfc)
     IN  /\ available_nfc # << >>
         /\ \E k \in DOMAIN available_nfc :
              locals' = RankInterIteration(locals, available_nfc[k])
  /\ UNCHANGED << pc, standings, intra_matchups, inter_matchups, intra_rankings,
                  inter_rankings, intra_conf_pairing, inter_conf_pairing,
                  tables, afc_hosts, asked, nfl_teams >>

\* random.choice of an empty list raises IndexError
GenerateRankingsInterRaise ==
  /\ pc = "inter_ranking"
  /\ locals.i <= Len(Divisions)
  /\ AvailableNfc(locals.current_pairs, Divisions[locals.i], locals.used_nfc) = << >>
  /\ pc' = "IndexError"
  /\ UNCHANGED << standings, intra_matchups, inter_matchups, intra_rankings,
                  inter_rankings, locals, intra_conf_pairing, inter_conf_pairing,
                  tables, afc_hosts, asked, nfl_teams >>

GenerateRankingsInterReturn ==
  /\ pc = "inter_ranking"
  /\ locals.i > Len(Divisions)
  /\ inter_rankings' = locals.rankings_pairs
  /\ locals' = EmptyDict
  /\ pc' = "inter_ranked"
  /\ UNCHANGED << standings, intra_matchups, inter_matchups, intra_rankings,
                  intra_conf_pairing, inter_conf_pairing,
                  tables, afc_hosts, asked, nfl_teams >>

\* schedule_maker.get_matchups, the intra-conference pairing loop
GetMatchupsIntra ==
  /\ pc = "start"
  /\ \E k1 \in ShuffleOutcomes(MakerDivisionKeys),
        k2 \in ShuffleOutcomes(MakerDivisionKeys) :
       intra_conf_pairing' = get_matchups_intra(k1, k2)
  /\ pc' = "maker_intra"
  /\ UNCHANGED << standings, intra_matchups, inter_matchups, intra_rankings,
                  inter_rankings, locals, inter_conf_pairing,
                  tables, afc_hosts, asked, nfl_teams >>

\* schedule_maker.get_matchups, the inter-conference pairing loop and return
GetMatchupsInter ==
  /\ pc = "maker_intra"
  /\ \E a \in ShuffleOutcomes(MakerDivisionKeys),
        n \in ShuffleOutcomes(MakerDivisionKeys) :
       inter_conf_pairing' = get_matchups_inter(a, n)
  /\ pc' = "maker_paired"
  /\ UNCHANGED << standings, intra_matchups, inter_matchups, intra_rankings,
                  inter_rankings, locals, intra_conf_pairing,
                  tables, afc_hosts, asked, nfl_teams >>

NextSetup ==
  \/ GeneratePairingsIntra
  \/ GeneratePairingsInter
  \/ GenerateRankingsIntra
  \/ GenerateRankingsInterBegin
  \/ GenerateRankingsInterChoose
  \/ GenerateRankingsInterRaise
  \/ GenerateRankingsInterReturn
  \/ GetMatchupsIntra
  \/ GetMatchupsInter

SpecSetup == Init /\ [][NextSetup]_vars

----------------------------------------------------------------------------
(* home_away_assignments.py, function by function.  Each function is called *)
(* on arguments that schedule_setup.py can produce.                         *)

\* team codes a caller may ask for: every team, and a code of no team
AskedCodes == TeamCodes \cup { "XXX" }

\* get_division_games(team_code) followed by assign_home_away_division
DivisionGames ==
  /\ pc = "start"
  /\ \E code \in AskedCodes :
       LET found == get_division_games(code)
           games == assign_home_away_division(found[4])
       IN  /\ team_code' = code
           /\ IF found[1] = None
              THEN /\ schedule' = [ team_name |-> None ]
                   /\ pc' = "get_division_games: not found"
              ELSE IF games.raised
              THEN /\ schedule' = [ team_name |-> found[1] ]
                   /\ pc' = "assign_home_away_division: AssertionError"
              ELSE /\ schedule' = [ team_name |-> found[1],
                                    conference |-> found[2],
                                    division |-> found[3],
                                    opponents |-> found[4],
                                    home_games |-> games.home_games,
                                    away_games |-> games.away_games ]
                   /\ pc' = "assign_home_away_division: returned"
  /\ UNCHANGED << setup, tables, afc_hosts, nfl_teams >>

GenerateIntraConferenceAssignments ==
  /\ pc = "start"
  /\ \E s1 \in ShuffleOutcomes(Divisions), s2 \in ShuffleOutcomes(Divisions) :
       LET matchups == generate_pairings_matchups("intra", s1, s2)
           assignments == generate_intra_conference_assignments(matchups)
       IN  /\ intra_matchups' = matchups
           /\ IF CrossVerified(assignments)
              THEN /\ INTRA_CONF_ASSIGNMENTS' = assignments
                   /\ pc' = "generate_intra_conference_assignments: returned"
              ELSE /\ INTRA_CONF_ASSIGNMENTS' = INTRA_CONF_ASSIGNMENTS
                   /\ pc' = "generate_intra_conference_assignments: AssertionError"
  /\ UNCHANGED << standings, inter_matchups, intra_rankings, inter_rankings,
                  locals, intra_conf_pairing, inter_conf_pairing,
                  INTER_CONF_ASSIGNMENTS, INTRA_RANK_ASSIGNMENTS,
                  INTER_RANK_ASSIGNMENTS, afc_hosts, asked, nfl_teams >>

GenerateInterConferenceAssignments ==
  /\ pc = "start"
  /\ \E s1 \in ShuffleOutcomes(Divisions), s2 \in ShuffleOutcomes(Divisions) :
       LET matchups == generate_pairings_matchups("inter", s1, s2)
           assignments == generate_inter_conference_assignments(matchups)
       IN  /\ inter_matchups' = matchups
           /\ IF CrossVerified(assignments)
              THEN /\ INTER_CONF_ASSIGNMENTS' = assignments
                   /\ pc' = "generate_inter_conference_assignments: returned"
              ELSE /\ INTER_CONF_ASSIGNMENTS' = INTER_CONF_ASSIGNMENTS
                   /\ pc' = "generate_inter_conference_assignments: AssertionError"
  /\ UNCHANGED << standings, intra_matchups, intra_rankings, inter_rankings,
                  locals, intra_conf_pairing, inter_conf_pairing,
                  INTRA_CONF_ASSIGNMENTS, INTRA_RANK_ASSIGNMENTS,
                  INTER_RANK_ASSIGNMENTS, afc_hosts, asked, nfl_teams >>

\* generate_intra_rank_assignments(standings, intra_rankings); locals keeps
\* how often the coin was flipped, how often and at which flips (counted from
\* 0) it came out as tails, and how many matchups the first pass labelled
GenerateIntraRankAssignments ==
  /\ pc = "start"
  /\ \E orders \in StandingsOrders, s1 \in MatchingShuffles, s2 \in MatchingShuffles :
       LET st == generate_random_standings(orders)
           matchups == generate_pairings_matchups("intra", s1, s2)
           rankings == generate_rankings_intra(matchups)
       IN  /\ standings' = st
           /\ intra_matchups' = matchups
           /\ intra_rankings' = rankings
           /\ \E outcome \in ha_generate_intra_rank_assignments(st, rankings) :
                /\ locals' = [ flips |-> outcome.flips,
                               tails |-> outcome.tails,
                               tail_flips |-> outcome.tail_flips,
                               first_pass_labels |-> outcome.first_pass_labels ]
                /\ IF outcome.raised
                   THEN /\ INTRA_RANK_ASSIGNMENTS' = INTRA_RANK_ASSIGNMENTS
                        /\ pc' = "generate_intra_rank_assignments: AssertionError"
                   ELSE /\ INTRA_RANK_ASSIGNMENTS' = outcome.assignments
                        /\ pc' = "generate_intra_rank_assignments: returned"
  /\ UNCHANGED << inter_matchups, inter_rankings,
                  intra_conf_pairing, inter_conf_pairing,
                  INTRA_CONF_ASSIGNMENTS, INTER_CONF_ASSIGNMENTS,
                  INTER_RANK_ASSIGNMENTS, afc_hosts, asked, nfl_teams >>

\* every list generate_rankings_matchups(., 'inter') can return
InterRankingsLists ==
  UNION { generate_rankings_inter_returns(
            generate_pairings_matchups("inter", s1, Divisions)) :
          s1 \in ShuffleOutcomes(Divisions) }

\* generate_inter_rank_assignments(standings, inter_rankings, afc_hosts)
GenerateInterRankAssignments ==
  /\ pc = "start"
  /\ \E orders \in StandingsOrders, rankings \in InterRankingsLists,
        hosts \in BOOLEAN :
       LET st == generate_random_standings(orders)
           outcome == ha_generate_inter_rank_assignments(st, rankings, hosts)
       IN  /\ standings' = st
           /\ inter_rankings' = rankings
           /\ afc_hosts' = hosts
           /\ IF outcome.raised
              THEN /\ INTER_RANK_ASSIGNMENTS' = INTER_RANK_ASSIGNMENTS
                   /\ pc' = "generate_inter_rank_assignments: AssertionError"
              ELSE /\ INTER_RANK_ASSIGNMENTS' = outcome.assignments
                   /\ pc' = "generate_inter_rank_assignments: returned"
  /\ UNCHANGED << intra_matchups, inter_matchups, intra_rankings, locals,
                  intra_conf_pairing, inter_conf_pairing,
                  INTRA_CONF_ASSIGNMENTS, INTER_CONF_ASSIGNMENTS,
                  INTRA_RANK_ASSIGNMENTS, asked, nfl_teams >>

NextHA ==
  \/ DivisionGames
  \/ GenerateIntraConferenceAssignments
  \/ GenerateInterConferenceAssignments
  \/ GenerateIntraRankAssignments
  \/ GenerateInterRankAssignments

SpecHA == Init /\ [][NextHA]_vars

----------------------------------------------------------------------------
(* schedule_generator.generate_intra_rank_assignments on its own *)

\* shuffle outcomes of the standings: every division in roster order
RosterStandingsOrders ==
  { orders \in StandingsOrders :
      \A c \in ConfSet : \A d \in DivSet : orders[c][d] = RotationOrder(0) }

\* generate_intra_rank_assignments(standings, intra_rankings) on the standings
\* in roster order, the divisions of both conferences paired up alike; locals
\* keeps the shuffled matchup list, how often random.random() was called, how
\* often it returned 0.5 or more, and how often the fallback branch was taken
SGGenerateIntraRankAssignments ==
  /\ pc = "start"
  /\ \E orders \in RosterStandingsOrders, s1 \in MatchingShuffles,
        tails \in TailsOutcomes, move \in SGShuffleMoves :
       \E st \in { generate_random_standings(orders) },
          matchups \in { generate_pairings_matchups("intra", s1, s1) } :
           /\ standings' = st
           /\ intra_matchups' = matchups
           /\ intra_rankings' = generate_rankings_intra(matchups)
           /\ \E outcome \in
                  { sg_generate_intra_rank_assignments(
                      st, generate_rankings_intra(matchups), tails, move) } :
                /\ locals' = [ matchups |-> outcome.matchups,
                               calls |-> outcome.calls,
                               tails |-> outcome.tails,
                               fallbacks |-> outcome.fallbacks ]
                /\ IF outcome.raised
                   THEN /\ INTRA_RANK_ASSIGNMENTS' = INTRA_RANK_ASSIGNMENTS
                        /\ pc' = "generate_intra_rank_assignments: AssertionError"
                   ELSE /\ INTRA_RANK_ASSIGNMENTS' = outcome.assignments
                        /\ pc' = "generate_intra_rank_assignments: returned"
  /\ UNCHANGED << inter_matchups, inter_rankings,
                  intra_conf_pairing, inter_conf_pairing,
                  INTRA_CONF_ASSIGNMENTS, INTER_CONF_ASSIGNMENTS,
                  INTER_RANK_ASSIGNMENTS, afc_hosts, asked, nfl_teams >>

\* generate_inter_rank_assignments(standings, inter_rankings) on every list
\* the inter rank derivation can return
SGGenerateInterRankAssignments ==
  /\ pc = "start"
  /\ \E orders \in StandingsOrders, rankings \in InterRankingsLists :
       \E st \in { generate_random_standings(orders) } :
         \E outcome \in { sg_generate_inter_rank_assignments(st, rankings) } :
           /\ standings' = st
           /\ inter_rankings' = rankings
           /\ IF outcome.raised
              THEN /\ INTER_RANK_ASSIGNMENTS' = INTER_RANK_ASSIGNMENTS
                   /\ pc' = "generate_inter_rank_assignments: AssertionError"
              ELSE /\ INTER_RANK_ASSIGNMENTS' = outcome.assignments
                   /\ pc' = "generate_inter_rank_assignments: returned"
  /\ UNCHANGED << intra_matchups, inter_matchups, intra_rankings, locals,
                  intra_conf_pairing, inter_conf_pairing,
                  INTRA_CONF_ASSIGNMENTS, INTER_CONF_ASSIGNMENTS,
                  INTRA_RANK_ASSIGNMENTS, afc_hosts, asked, nfl_teams >>

NextSG ==
  \/ SGGenerateIntraRankAssignments
  \/ SGGenerateInterRankAssignments

SpecSG == Init /\ [][NextSG]_vars

----------------------------------------------------------------------------
(* schedule_generator.main(): the generation at the start, then the queries *)

\* shuffle outcomes of the standings of the modelled sessions: every division
\* in roster order, or every division but North rotated by MaxShift
SessionStandingsOrders ==
  { orders \in StandingsOrders :
      /\ orders["AFC"]["South"] \in { RotationOrder(0), RotationOrder(MaxShift) }
      /\ \A c \in ConfSet : \A d \in DivSet \ {"North"} :
           orders[c][d] = orders["AFC"]["South"] }

\* the calls of random.random() that return 0.5 or more in the modelled
\* sessions: none, or the first call of the processing loop (call 32)
SessionTails == { S \in TailsOutcomes : S \subseteq { 32 } }

\* outcomes of random.shuffle(matchups) in the modelled sessions: the list as
\* collected, or its 10th matchup moved to the front
SessionMoves == { 1, 10 }

\* a variant of the assignments below: a table whose generator has raised is
\* assigned all the same and main() goes on
MainAssignments_goes_on(cross1, cross2, rank1, rank2) ==
  [ pc |-> "main: prompt",
    tables |-> << cross1, cross2, rank1.assignments, rank2.assignments >> ]

\* the four module-level tables after the assignments of main(), and where
\* main() is then: each table is assigned when its generator returns
MainAssignments(cross1, cross2, rank1, rank2) ==
  IF ~ CrossVerified(cross1)
  THEN [ pc |-> "main: AssertionError",
         tables |-> << EmptyDict, EmptyDict, EmptyDict, EmptyDict >> ]
  ELSE IF ~ CrossVerified(cross2)
  THEN [ pc |-> "main: AssertionError",
         tables |-> << cross1, EmptyDict, EmptyDict, EmptyDict >> ]
  ELSE IF rank1.raised
  THEN [ pc |-> "main: AssertionError",
         tables |-> << cross1, cross2, EmptyDict, EmptyDict >> ]
  ELSE IF rank2.raised
  THEN [ pc |-> "main: AssertionError",
         tables |-> << cross1, cross2, rank1.assignments, EmptyDict >> ]
  ELSE [ pc |-> "main: prompt",
         tables |-> << cross1, cross2, rank1.assignments, rank2.assignments >> ]

\* main() up to the first prompt: standings, pairings, rank matchups and the
\* four tables; an exception of a generator ends the program.  The modelled
\* sessions pair up the divisions of both conferences alike and pair each AFC
\* division with the NFC division of its name.
MainGenerate ==
  /\ pc = "start"
  /\ \E orders \in SessionStandingsOrders, s1 \in MatchingShuffles,
        tails \in SessionTails, move \in SessionMoves :
       \E st \in { generate_random_standings(orders) },
          intra \in { generate_pairings_matchups("intra", s1, s1) },
          inter \in { generate_pairings_matchups("inter", Divisions, Divisions) } :
         \E derived \in generate_rankings_inter_outcomes(inter) :
           /\ standings' = st
           /\ intra_matchups' = intra
           /\ inter_matchups' = inter
           /\ intra_rankings' = generate_rankings_intra(intra)
           /\ IF derived.raised
              THEN /\ pc' = "main: IndexError"
                   /\ UNCHANGED << inter_rankings, tables >>
              ELSE /\ inter_rankings' = derived.rankings_pairs
                   /\ \E after \in
                          { MainAssignments(
                              generate_intra_conference_assignments(intra),
                              generate_inter_conference_assignments(inter),
                              sg_generate_intra_rank_assignments(
                                st, generate_rankings_intra(intra), tails, move),
                              sg_generate_inter_rank_assignments(
                                st, derived.rankings_pairs)) } :
                        /\ pc' = after.pc
                        /\ INTRA_CONF_ASSIGNMENTS' = after.tables[1]
                        /\ INTER_CONF_ASSIGNMENTS' = after.tables[2]
                        /\ INTRA_RANK_ASSIGNMENTS' = after.tables[3]
                        /\ INTER_RANK_ASSIGNMENTS' = after.tables[4]
  /\ UNCHANGED << locals, intra_conf_pairing, inter_conf_pairing, afc_hosts,
                  asked, nfl_teams >>

\* what the user types at the prompt in the modelled sessions: the team codes
\* in capitals, two other spellings of one of them, three strings that are
\* the code of no team, and the word that ends the program in two spellings
TypedInputs == AskedCodes \cup { "kc", "Kc", "", " KC", "quit", "QUIT" }

\* str.upper() on the typed inputs
Upper(typed) ==
  CASE typed = "kc" -> "KC"
    [] typed = "Kc" -> "KC"
    [] typed = "quit" -> "QUIT"
    [] OTHER -> typed

\* a variant of the round of the query loop below: the standings are shuffled
\* again before a known team is looked up
MainQuery_reshuffles ==
  /\ pc = "main: prompt"
  /\ \E typed \in TypedInputs, orders \in SessionStandingsOrders :
       \E code \in { Upper(typed) } \ { "QUIT" } :
       \E found \in { get_division_games(code) },
          st \in { generate_random_standings(orders) } :
         /\ team_code' = code
         /\ IF found[1] = None
            THEN /\ schedule' = [ team_name |-> None ]
                 /\ pc' = "main: prompt"
                 /\ standings' = standings
            ELSE \E printed \in
                     { TeamQuery(code, found, st,
                                 << intra_matchups, inter_matchups >>,
                                 << intra_rankings, inter_rankings >>, tables) } :
                   /\ schedule' = [ team_name |-> found[1], printed |-> printed ]
                   /\ pc' = IF printed.raised THEN "main: error in a query"
                                              ELSE "main: prompt"
                   /\ standings' = st
  /\ UNCHANGED << intra_matchups, inter_matchups, intra_rankings, inter_rankings,
                  locals, intra_conf_pairing, inter_conf_pairing, tables,
                  afc_hosts, nfl_teams >>

\* one round of the query loop: the input in capitals is not QUIT; it is a
\* team code or the code of no team
MainQuery ==
  /\ pc = "main: prompt"
  /\ \E typed \in TypedInputs :
       \E code \in { Upper(typed) } \ { "QUIT" } :
       \E found \in { get_division_games(code) } :
         /\ team_code' = code
         /\ IF found[1] = None
            THEN /\ schedule' = [ team_name |-> None ]
                 /\ pc' = "main: prompt"
            ELSE \E printed \in
                     { TeamQuery(code, found, standings,
                                 << intra_matchups, inter_matchups >>,
                                 << intra_rankings, inter_rankings >>, tables) } :
                   /\ schedule' = [ team_name |-> found[1], printed |-> printed ]
                   /\ pc' = IF printed.raised THEN "main: error in a query"
                                              ELSE "main: prompt"
  /\ UNCHANGED << setup, tables, afc_hosts, nfl_teams >>

\* the input in capitals is QUIT
MainQuit ==
  /\ pc = "main: prompt"
  /\ \E typed \in TypedInputs : Upper(typed) = "QUIT"
  /\ pc' = "main: exit"
  /\ UNCHANGED << setup, tables, afc_hosts, asked, nfl_teams >>

NextSession ==
  \/ MainGenerate
  \/ MainQuery
  \/ MainQuit

SpecSession == Init /\ [][NextSession]_vars

----------------------------------------------------------------------------
(* home_away_assignments.generate_intra_rank_assignments, matchup by matchup *)

\* the rank groups of a call, in the order of its loops
RankGroupCount == Len(Conferences) * Cardinality(Ranks)

\* the call begins: locals.l are the local variables assignments, home_count
\* and away_count (with the record of the coin), locals.done the rank groups
\* done, locals.matchups the sorted matchups of the group and locals.n the
\* matchup the running pass comes to next
IntraRankBegin ==
  /\ pc = "start"
  /\ \E orders \in SessionStandingsOrders,
        s1 \in MatchingShuffles, s2 \in MatchingShuffles :
       \E matchups \in { generate_pairings_matchups("intra", s1, s2) } :
         /\ standings' = generate_random_standings(orders)
         /\ intra_matchups' = matchups
         /\ intra_rankings' = generate_rankings_intra(matchups)
  /\ locals' = [ l |-> [ assignments |-> EmptyDict,
                         home_count |-> EmptyDict,
                         away_count |-> EmptyDict,
                         flips |-> 0,
                         tails |-> 0,
                         tail_flips |-> {},
                         first_pass_labels |-> 0,
                         raised |-> FALSE ],
                 done |-> 0,
                 matchups |-> << >>,
                 n |-> 0 ]
  /\ pc' = "generate_intra_rank_assignments: next rank group"
  /\ UNCHANGED << inter_matchups, inter_rankings, intra_conf_pairing,
                  inter_conf_pairing, tables, afc_hosts, asked, nfl_teams >>

\* the next rank group is entered: the entries of a new conference, the
\* counters and the sorted matchups
IntraRankEnterGroup ==
  /\ pc = "generate_intra_rank_assignments: next rank group"
  /\ locals.done < RankGroupCount
  /\ LET conference == Conferences[(locals.done \div Cardinality(Ranks)) + 1]
         rank == (locals.done % Cardinality(Ranks)) + 1
         rank_group == RankGroup(standings, conference, rank)
         codes == { rank_group[k][1] : k \in DOMAIN rank_group }
     IN  locals' = [ locals EXCEPT
                       !.l = [ @ EXCEPT
                                 !.assignments =
                                    IF rank = 1
                                    THEN ResetConference(@, standings, conference)
                                    ELSE @,
                                 !.home_count = DictOver(codes, 0, EmptyDict),
                                 !.away_count = DictOver(codes, 0, EmptyDict) ],
                       !.matchups = RankMatchups(rank_group, conference,
                                                 intra_rankings),
                       !.n = 1 ]
  /\ pc' = "generate_intra_rank_assignments: first pass"
  /\ UNCHANGED << standings, intra_matchups, inter_matchups, intra_rankings,
                  inter_rankings, intra_conf_pairing, inter_conf_pairing,
                  tables, afc_hosts, asked, nfl_teams >>

\* one iteration of the first pass
IntraRankFirstPass ==
  /\ pc = "generate_intra_rank_assignments: first pass"
  /\ \E after \in { FirstPassStep(locals.l, locals.matchups[locals.n][1],
                                  locals.matchups[locals.n][2]) } :
       locals' = [ locals EXCEPT
                     !.l = [ after EXCEPT !.first_pass_labels =
                                            IF after = locals.l THEN @ ELSE @ + 1 ],
                     !.n = IF locals.n < Len(locals.matchups) THEN @ + 1 ELSE 1 ]
  /\ pc' = IF locals.n < Len(locals.matchups)
           THEN pc
           ELSE "generate_intra_rank_assignments: second pass"
  /\ UNCHANGED << standings, intra_matchups, inter_matchups, intra_rankings,
                  inter_rankings, intra_conf_pairing, inter_conf_pairing,
                  tables, afc_hosts, asked, nfl_teams >>

\* one iteration of the second pass, with either result of the coin where it
\* is flipped
IntraRankSecondPass ==
  /\ pc = "generate_intra_rank_assignments: second pass"
  /\ \E after \in SecondPassStep(locals.l, locals.matchups[locals.n][1],
                                 locals.matchups[locals.n][2]) :
       locals' = [ locals EXCEPT
                     !.l = after,
                     !.n = IF locals.n < Len(locals.matchups) THEN @ + 1 ELSE 1 ]
  /\ pc' = IF locals.n < Len(locals.matchups)
           THEN pc
           ELSE "generate_intra_rank_assignments: rank group assertions"
  /\ UNCHANGED << standings, intra_matchups, inter_matchups, intra_rankings,
                  inter_rankings, intra_conf_pairing, inter_conf_pairing,
                  tables, afc_hosts, asked, nfl_teams >>

\* the assertions at the end of a rank group
IntraRankVerifyGroup ==
  /\ pc = "generate_intra_rank_assignments: rank group assertions"
  /\ IF \E team \in DOMAIN locals.l.home_count :
           \/ locals.l.home_count[team] # 1
           \/ locals.l.away_count[team] # 1
     THEN /\ pc' = "generate_intra_rank_assignments: AssertionError"
          /\ locals' = [ locals EXCEPT !.l.raised = TRUE ]
     ELSE /\ pc' = "generate_intra_rank_assignments: next rank group"
          /\ locals' = [ locals EXCEPT !.done = @ + 1 ]
  /\ UNCHANGED << standings, intra_matchups, inter_matchups, intra_rankings,
                  inter_rankings, intra_conf_pairing, inter_conf_pairing,
                  tables, afc_hosts, asked, nfl_teams >>

\* the final verification and the return
IntraRankReturn ==
  /\ pc = "generate_intra_rank_assignments: next rank group"
  /\ locals.done = RankGroupCount
  /\ IF verify_intra_rank_assignments(locals.l.assignments)
     THEN /\ pc' = "generate_intra_rank_assignments: returned"
          /\ INTRA_RANK_ASSIGNMENTS' = locals.l.assignments
     ELSE /\ pc' = "generate_intra_rank_assignments: AssertionError"
          /\ INTRA_RANK_ASSIGNMENTS' = INTRA_RANK_ASSIGNMENTS
  /\ UNCHANGED << setup, INTRA_CONF_ASSIGNMENTS, INTER_CONF_ASSIGNMENTS,
                  INTER_RANK_ASSIGNMENTS, afc_hosts, asked, nfl_teams >>

NextIntraRankSteps ==
  \/ IntraRankBegin
  \/ IntraRankEnterGroup
  \/ IntraRankFirstPass
  \/ IntraRankSecondPass
  \/ IntraRankVerifyGroup
  \/ IntraRankReturn

SpecIntraRankSteps == Init /\ [][NextIntraRankSteps]_vars

----------------------------------------------------------------------------

(* schedule_generator.generate_intra_rank_assignments, matchup by matchup *)

\* the call begins: the matchups are collected and shuffled and the entries
\* of assignments are made; locals.l are the local variables of the function,
\* locals.done the matchups processed and locals.tails the calls of
\* random.random() that returned 0.5 or more
SGIntraRankBegin ==
  /\ pc = "start"
  /\ \E orders \in RosterStandingsOrders, s1 \in MatchingShuffles,
        tails \in { t \in TailsOutcomes : \A i \in t : i < 32 },
        move \in SGShuffleMoves :
       \E st \in { generate_random_standings(orders) },
          matchups \in { generate_pairings_matchups("intra", s1, s1) } :
         \E collected \in
              { SGCollect([ l |-> [ assignments |-> EmptyDict,
                                    processed_pairs |-> {},
                                    total_games |-> EmptyDict,
                                    home_games |-> EmptyDict,
                                    away_games |-> EmptyDict,
                                    matchups |-> << >>,
                                    calls |-> 0,
                                    fallbacks |-> 0 ],
                            done |-> 0 ],
                          st, generate_rankings_intra(matchups), tails) } :
           /\ standings' = st
           /\ intra_matchups' = matchups
           /\ intra_rankings' = generate_rankings_intra(matchups)
           /\ locals' = [ l |-> [ collected EXCEPT
                                    !.assignments =
                                       DictOver(DOMAIN collected.total_games,
                                                EmptyDict, EmptyDict),
                                    !.matchups = MoveToFront(@, move) ],
                          done |-> 0,
                          tails |-> tails ]
  /\ pc' = "generate_intra_rank_assignments: processing"
  /\ UNCHANGED << inter_matchups, inter_rankings, intra_conf_pairing,
                  inter_conf_pairing, tables, afc_hosts, asked, nfl_teams >>

\* one iteration of the processing loop, with either result of
\* random.random() where it is called
SGIntraRankProcess ==
  /\ pc = "generate_intra_rank_assignments: processing"
  /\ locals.done < Len(locals.l.matchups)
  /\ \E tails \in { locals.tails } \cup
                  ( IF Cardinality(locals.tails) < MaxTails
                    THEN { locals.tails \cup { locals.l.calls } }
                    ELSE {} ) :
       /\ locals' = [ l |-> SGProcessStep(locals.l,
                                          locals.l.matchups[locals.done + 1][1],
                                          locals.l.matchups[locals.done + 1][2],
                                          tails),
                      done |-> locals.done + 1,
                      tails |-> tails ]
       /\ tails # locals.tails => locals'.l.calls # locals.l.calls
  /\ pc' = pc
  /\ UNCHANGED << standings, intra_matchups, inter_matchups, intra_rankings,
                  inter_rankings, intra_conf_pairing, inter_conf_pairing,
                  tables, afc_hosts, asked, nfl_teams >>

\* the verification loop and the return
SGIntraRankVerify ==
  /\ pc = "generate_intra_rank_assignments: processing"
  /\ locals.done = Len(locals.l.matchups)
  /\ IF SGIntraRankVerified(locals.l)
     THEN /\ pc' = "generate_intra_rank_assignments: returned"
          /\ INTRA_RANK_ASSIGNMENTS' = locals.l.assignments
     ELSE /\ pc' = "generate_intra_rank_assignments: AssertionError"
          /\ INTRA_RANK_ASSIGNMENTS' = INTRA_RANK_ASSIGNMENTS
  /\ UNCHANGED << setup, INTRA_CONF_ASSIGNMENTS, INTER_CONF_ASSIGNMENTS,
                  INTER_RANK_ASSIGNMENTS, afc_hosts, asked, nfl_teams >>

NextSGIntraRankSteps ==
  \/ SGIntraRankBegin
  \/ SGIntraRankProcess
  \/ SGIntraRankVerify

SpecSGIntraRankSteps == Init /\ [][NextSGIntraRankSteps]_vars

----------------------------------------------------------------------------

(* The standings and matchups main() generates before the assignments *)

\* the five calls of schedule_setup at the start of main(): the standings in
\* roster order or rotated, any intra pairing, any pairing of the AFC with the
\* NFC divisions, and any outcome of the inter rank derivation; IndexError
\* ends the program
SeasonSetup ==
  /\ pc = "start"
  /\ \E orders \in SessionStandingsOrders,
        s1 \in MatchingShuffles, s2 \in MatchingShuffles,
        s3 \in ShuffleOutcomes(Divisions) :
       \E intra \in { generate_pairings_matchups("intra", s1, s2) },
          inter \in { generate_pairings_matchups("inter", s3, Divisions) } :
         \E derived \in generate_rankings_inter_outcomes(inter) :
           /\ standings' = generate_random_standings(orders)
           /\ intra_matchups' = intra
           /\ inter_matchups' = inter
           /\ intra_rankings' = generate_rankings_intra(intra)
           /\ IF derived.raised
              THEN /\ pc' = "main: IndexError"
                   /\ inter_rankings' = inter_rankings
              ELSE /\ pc' = "main: standings and matchups generated"
                   /\ inter_rankings' = derived.rankings_pairs
  /\ UNCHANGED << locals, intra_conf_pairing, inter_conf_pairing, tables,
                  afc_hosts, asked, nfl_teams >>

NextSeason == SeasonSetup

SpecSeason == Init /\ [][NextSeason]_vars

----------------------------------------------------------------------------

(* schedule_setup.generate_random_standings() and the rank of a team *)

\* shuffle outcomes of the standings: one division in any of its 24 orders,
\* the seven others rotated alike
ShuffledOrders ==
  { [ c \in ConfSet |->
        [ d \in DivSet |->
            IF << c, d >> = one THEN p ELSE RotationOrder(shift) ] ] :
    one \in ConfSet \X DivSet, p \in Permutations4, shift \in 0..MaxShift }

GenerateRandomStandings ==
  /\ pc = "start"
  /\ \E orders \in ShuffledOrders :
       standings' = generate_random_standings(orders)
  /\ pc' = "generate_random_standings: returned"
  /\ UNCHANGED << intra_matchups, inter_matchups, intra_rankings, inter_rankings,
                  locals, intra_conf_pairing, inter_conf_pairing, tables,
                  afc_hosts, asked, nfl_teams >>

\* get_team_rank(team_name, standings) for the name of a team
GetTeamRank ==
  /\ pc = "generate_random_standings: returned"
  /\ \E code \in TeamCodes :
       \E found \in { get_division_games(code) } :
         /\ team_code' = code
         /\ schedule' = [ team_name |-> found[1],
                          conference |-> found[2],
                          division |-> found[3],
                          rank |-> get_team_rank(found[1], standings) ]
  /\ pc' = "get_team_rank: returned"
  /\ UNCHANGED << setup, tables, afc_hosts, nfl_teams >>

NextStandings ==
  \/ GenerateRandomStandings
  \/ GetTeamRank

SpecStandings == Init /\ [][NextStandings]_vars

----------------------------------------------------------------------------
(* The reference data NFL_TEAMS across generations and queries *)

\* shuffle outcomes of the standings generated over and over: the divisions
\* of a conference all in the order of the list shuffled, or all rotated by
\* MaxShift
ReferenceOrders ==
  { [ c \in ConfSet |-> [ d \in DivSet |-> RotationOrder(shift[c]) ] ] :
    shift \in [ ConfSet -> { 0, MaxShift } ] }

\* the team codes asked for between the generations
ReferenceCodes == { "KC", "SF" }

\* the positions between two calls
BetweenCalls ==
  { "start", "generate_random_standings: returned",
    "generate_intra_conference_assignments: returned",
    "generate_inter_conference_assignments: returned",
    "get_team_rank: returned" }

\* standings = generate_random_standings(), on the lists NFL_TEAMS refers to
\* at the time of the call
GenerateStandingsAgain ==
  /\ pc \in BetweenCalls
  /\ \E orders \in ReferenceOrders :
       \E l \in { generate_random_standings_on(nfl_teams, orders) } :
         /\ standings' = l.standings
         /\ nfl_teams' = l.nfl_teams
  /\ pc' = "generate_random_standings: returned"
  /\ UNCHANGED << intra_matchups, inter_matchups, intra_rankings, inter_rankings,
                  locals, intra_conf_pairing, inter_conf_pairing, tables,
                  afc_hosts, asked >>

\* intra_matchups = generate_pairings_matchups('intra') and
\* INTRA_CONF_ASSIGNMENTS = generate_intra_conference_assignments(intra_matchups)
GenerateIntraConferenceAgain ==
  /\ pc \in BetweenCalls
  /\ \E s1 \in MatchingShuffles, s2 \in MatchingShuffles :
       \E matchups \in { generate_pairings_matchups("intra", s1, s2) } :
         \E assignments \in { CrossPairsOn(nfl_teams,
                                           [ assignments |-> EmptyDict, n |-> 1 ],
                                           matchups) } :
           /\ intra_matchups' = matchups
           /\ IF CrossVerified(assignments)
              THEN /\ INTRA_CONF_ASSIGNMENTS' = assignments
                   /\ pc' = "generate_intra_conference_assignments: returned"
              ELSE /\ INTRA_CONF_ASSIGNMENTS' = INTRA_CONF_ASSIGNMENTS
                   /\ pc' = "generate_intra_conference_assignments: AssertionError"
  /\ UNCHANGED << standings, inter_matchups, intra_rankings, inter_rankings,
                  locals, intra_conf_pairing, inter_conf_pairing,
                  INTER_CONF_ASSIGNMENTS, INTRA_RANK_ASSIGNMENTS,
                  INTER_RANK_ASSIGNMENTS, afc_hosts, asked, nfl_teams >>

\* inter_matchups = generate_pairings_matchups('inter') and
\* INTER_CONF_ASSIGNMENTS = generate_inter_conference_assignments(inter_matchups)
GenerateInterConferenceAgain ==
  /\ pc \in BetweenCalls
  /\ \E s1 \in MatchingShuffles :
       \E matchups \in { generate_pairings_matchups("inter", s1, Divisions) } :
         \E assignments \in { CrossPairsOn(nfl_teams,
                                           [ assignments |-> EmptyDict, n |-> 1 ],
                                           matchups) } :
           /\ inter_matchups' = matchups
           /\ IF CrossVerified(assignments)
              THEN /\ INTER_CONF_ASSIGNMENTS' = assignments
                   /\ pc' = "generate_inter_conference_assignments: returned"
              ELSE /\ INTER_CONF_ASSIGNMENTS' = INTER_CONF_ASSIGNMENTS
                   /\ pc' = "generate_inter_conference_assignments: AssertionError"
  /\ UNCHANGED << standings, intra_matchups, intra_rankings, inter_rankings,
                  locals, intra_conf_pairing, inter_conf_pairing,
                  INTRA_CONF_ASSIGNMENTS, INTRA_RANK_ASSIGNMENTS,
                  INTER_RANK_ASSIGNMENTS, afc_hosts, asked, nfl_teams >>

\* a query of the rank of a team in the standings generated last
GetTeamRankAgain ==
  /\ pc \in BetweenCalls
  /\ standings # EmptyDict
  /\ \E code \in ReferenceCodes :
       \E found \in { get_division_games(code) } :
         /\ team_code' = code
         /\ schedule' = [ team_name |-> found[1],
                          conference |-> found[2],
                          division |-> found[3],
                          rank |-> get_team_rank(found[1], standings) ]
  /\ pc' = "get_team_rank: returned"
  /\ UNCHANGED << setup, tables, afc_hosts, nfl_teams >>

NextReference ==
  \/ GenerateStandingsAgain
  \/ GenerateIntraConferenceAgain
  \/ GenerateInterConferenceAgain
  \/ GetTeamRankAgain

SpecReference == Init /\ [][NextReference]_vars

----------------------------------------------------------------------------

(* Properties *)

\* the number of sides (first or second) of the pairs of a pairing list on
\* which the division (conf, div) stands
Appearances(matchups, conf, div) ==
  Cardinality({ i \in DOMAIN matchups :
                  matchups[i][1] = conf /\ matchups[i][2] = div })
  + Cardinality({ i \in DOMAIN matchups :
                    matchups[i][3] = conf /\ matchups[i][4] = div })

IntraPairingComplete(matchups) ==
  /\ Len(matchups) = 4
  /\ \A i \in DOMAIN matchups :
       /\ matchups[i][1] = matchups[i][3]
       /\ matchups[i][2] # matchups[i][4]
  /\ \A c \in ConfSet, d \in DivSet : Appearances(matchups, c, d) = 1

InterPairingComplete(matchups) ==
  /\ Len(matchups) = 4
  /\ \A i \in DOMAIN matchups :
       matchups[i][1] = "AFC" /\ matchups[i][3] = "NFC"
  /\ \A c \in ConfSet, d \in DivSet : Appearances(matchups, c, d) = 1

\* C7: pairing completeness. generate_pairings_matchups('intra') returns 4
\* pairs, each inside one conference and of two distinct divisions, in which
\* each of the 8 divisions stands exactly once; generate_pairings_matchups(
\* 'inter') returns 4 (AFC division, NFC division) pairs in which each AFC and
\* each NFC division stands exactly once; the mappings of
\* schedule_maker.get_matchups are symmetric and total in the same way.
C7_PairingCompleteness ==
  /\ pc \in {"intra_paired", "intra_ranked"} => IntraPairingComplete(intra_matchups)
  /\ pc \in {"inter_paired", "inter_ranking", "inter_ranked", "IndexError"}
       => InterPairingComplete(inter_matchups)
  /\ pc \in {"maker_intra", "maker_paired"} =>
       \A c \in ConfSet :
         /\ DOMAIN intra_conf_pairing[c] = DivSet
         /\ \A d \in DivSet :
              /\ intra_conf_pairing[c][d] \in DivSet \ {d}
              /\ intra_conf_pairing[c][intra_conf_pairing[c][d]] = d
  /\ pc = "maker_paired" =>
       /\ DOMAIN inter_conf_pairing["AFC"] = DivSet
       /\ DOMAIN inter_conf_pairing["NFC"] = DivSet
       /\ \A d \in DivSet :
            /\ inter_conf_pairing["AFC"][d] \in DivSet
            /\ inter_conf_pairing["NFC"][inter_conf_pairing["AFC"][d]] = d
            /\ inter_conf_pairing["AFC"][inter_conf_pairing["NFC"][d]] = d

\* a shuffled intra pairing, a shuffled inter pairing or the maker's mappings
\* have been produced from a shuffle that moved the divisions
C7_Witness ==
  \/ /\ pc = "intra_paired"
     /\ intra_matchups[1] = << "AFC", "West", "AFC", "South" >>
     /\ intra_matchups[4] = << "NFC", "East", "NFC", "North" >>
  \/ /\ pc = "maker_paired" /\ inter_conf_pairing["AFC"]["East"] = "West"

\* the division paired with (c, d) in a pairing list, read off the list
PairedWith(matchups, c, d) ==
  CHOOSE e \in DivSet :
    \E i \in DOMAIN matchups :
      \/ matchups[i][1] = c /\ matchups[i][2] = d /\ matchups[i][4] = e
      \/ matchups[i][3] = c /\ matchups[i][4] = d /\ matchups[i][2] = e

\* C8: for every intra pairing and every division D,
\* generate_rankings_matchups(pairing, 'intra') maps D to exactly the two
\* divisions that are neither D nor D's intra-paired partner, and the relation
\* is symmetric.
C8_IntraRankDerivation ==
  pc = "intra_ranked" =>
    \A c \in ConfSet, d \in DivSet :
      LET opps == intra_rankings[DivKey(c, d)]
      IN  /\ Len(opps) = 2
          /\ opps[1] # opps[2]
          /\ Range(opps) = DivSet \ { d, PairedWith(intra_matchups, c, d) }
          /\ \A e \in Range(opps) : d \in Range(intra_rankings[DivKey(c, e)])

C8_Witness ==
  /\ pc = "intra_ranked"
  /\ PairedWith(intra_matchups, "AFC", "North") = "West"
  /\ intra_rankings["AFC North"] = << "South", "East" >>
  /\ intra_rankings["NFC East"] = << "North", "West" >>

\* the inter-rank pairs built so far or returned
RankPairsSoFar ==
  IF pc \in {"inter_ranking", "IndexError"} THEN locals.rankings_pairs
  ELSE inter_rankings

C10_InterRankNeverFails ==
  /\ pc # "IndexError"
  /\ pc = "inter_ranked" => InterPairingComplete(inter_rankings)

\* the teams of the division of a team code, as the roster lists them
RosterOf(code) ==
  LET cd == CHOOSE x \in ConfSet \X DivSet :
              code \in Range(Abbreviations(NFL_TEAMS[x[1]][x[2]]))
  IN  NFL_TEAMS[cd[1]][cd[2]]

\* how often an element occurs in a list
Occurrences(list, x) == Cardinality({ i \in DOMAIN list : list[i] = x })

\* C6: for every valid team code, get_division_games returns exactly the 3
\* other teams of the team's division, and assign_home_away_division labels
\* each of them exactly once HOME and once AWAY (3 HOME and 3 AWAY in total)
\* without a failing assertion; Y is a division opponent of X iff X is one of
\* Y.
C6_DivisionGames ==
  /\ pc # "assign_home_away_division: AssertionError"
  /\ team_code \in TeamCodes => pc = "assign_home_away_division: returned"
  /\ pc = "assign_home_away_division: returned" =>
       LET others == { t \in Range(RosterOf(team_code)) :
                         t.abbreviation # team_code }
       IN  /\ Len(schedule.opponents) = 3
           /\ Range(schedule.opponents) = { t.name : t \in others }
           /\ Len(schedule.home_games) = 3
           /\ Len(schedule.away_games) = 3
           /\ \A o \in Range(schedule.opponents) :
                /\ Occurrences(schedule.home_games, << o, "HOME" >>) = 1
                /\ Occurrences(schedule.away_games, << o, "AWAY" >>) = 1
           /\ \A y \in TeamCodes :
                LET of_y == get_division_games(y)
                IN  of_y[1] \in Range(schedule.opponents)
                      <=> schedule.team_name \in Range(of_y[4])

C6_Witness ==
  /\ pc = "assign_home_away_division: returned"
  /\ team_code = "JAX"
  /\ schedule.opponents
       = << "Houston Texans", "Indianapolis Colts", "Tennessee Titans" >>
  /\ schedule.home_games[3] = << "Tennessee Titans", "HOME" >>

\* what a cross-division table must be for a list of division pairings
CrossTableOf(table, matchups) ==
  /\ DOMAIN table = TeamCodes
  /\ \A code \in TeamCodes :
       /\ Cardinality(DOMAIN table[code]) = 4
       /\ Cardinality({ o \in DOMAIN table[code] : table[code][o] = "HOME" }) = 2
       /\ Cardinality({ o \in DOMAIN table[code] : table[code][o] = "AWAY" }) = 2
  /\ \A n \in DOMAIN matchups :
       LET first_listed == Abbreviations(NFL_TEAMS[matchups[n][1]][matchups[n][2]])
           second_listed == Abbreviations(NFL_TEAMS[matchups[n][3]][matchups[n][4]])
       IN  \A i \in DOMAIN first_listed, j \in DOMAIN second_listed :
             /\ DOMAIN table[first_listed[i]] = Range(second_listed)
             /\ DOMAIN table[second_listed[j]] = Range(first_listed)
             /\ table[first_listed[i]][second_listed[j]] = "HOME"
                  <=> ((i - 1) + (j - 1)) % 2 = 0

\* C4: for every intra pairing and every inter pairing, after
\* generate_intra_conference_assignments / generate_inter_conference_assignments
\* every team has exactly 4 entries, the 4 teams of its paired division, 2 of
\* them HOME and 2 AWAY, and the first-listed division's team at roster index
\* i is HOME against the second-listed division's team at index j exactly
\* when i + j is even; the verification never fails.
C4_CrossDivisionGames ==
  /\ pc # "generate_intra_conference_assignments: AssertionError"
  /\ pc # "generate_inter_conference_assignments: AssertionError"
  /\ pc = "generate_intra_conference_assignments: returned" =>
       CrossTableOf(INTRA_CONF_ASSIGNMENTS, intra_matchups)
  /\ pc = "generate_inter_conference_assignments: returned" =>
       CrossTableOf(INTER_CONF_ASSIGNMENTS, inter_matchups)

C4_Witness ==
  /\ pc = "generate_inter_conference_assignments: returned"
  /\ inter_matchups[1] = << "AFC", "West", "NFC", "East" >>
  /\ INTER_CONF_ASSIGNMENTS["KC"]["NYG"] = "HOME"
  /\ INTER_CONF_ASSIGNMENTS["KC"]["PHI"] = "AWAY"
  /\ INTER_CONF_ASSIGNMENTS["PHI"]["KC"] = "HOME"

\* C2: in home_away_assignments.generate_intra_rank_assignments, for every
\* standings, every intra pairing and every outcome of the coin flips, each of
\* the 32 teams ends with exactly 1 HOME and 1 AWAY rank-based game against
\* two distinct opponents, and neither the per-rank assertions nor
\* verify_intra_rank_assignments fail.
C2_IntraRankOneHomeOneAway ==
  /\ pc # "generate_intra_rank_assignments: AssertionError"
  /\ pc = "generate_intra_rank_assignments: returned" =>
       /\ DOMAIN INTRA_RANK_ASSIGNMENTS = TeamCodes
       /\ \A code \in TeamCodes :
            LET entry == INTRA_RANK_ASSIGNMENTS[code]
            IN  /\ Cardinality(DOMAIN entry) = 2
                /\ Cardinality({ o \in DOMAIN entry : entry[o] = "HOME" }) = 1
                /\ Cardinality({ o \in DOMAIN entry : entry[o] = "AWAY" }) = 1

C2_Witness ==
  /\ pc = "generate_intra_rank_assignments: returned"
  /\ locals.tails = 1
  /\ standings["AFC"]["South"][1].abbreviation = "JAX"
  /\ intra_rankings["AFC North"] = << "South", "West" >>
  /\ INTRA_RANK_ASSIGNMENTS["BAL"]["JAX"] = "AWAY"

\* X's label for Y in the table of the rank-based games between the
\* conferences, which holds one opponent and one location per team
LabelInInterRank(table, x, y) ==
  IF x \in DOMAIN table /\ table[x].opponent = y THEN table[x].location ELSE None

\* C1: in each of the four tables and for every two teams X and Y, X's entry
\* for Y is HOME iff Y's entry for X is AWAY, and X has an entry for Y iff Y
\* has one for X, whatever the standings, pairings and coin flips.  (Two teams
\* without an entry for each other satisfy both parts, so the formula ranges
\* over the entries.)
C1_PairwiseConsistency ==
  /\ \A table \in { INTRA_CONF_ASSIGNMENTS, INTER_CONF_ASSIGNMENTS,
                    INTRA_RANK_ASSIGNMENTS } :
       \A x \in DOMAIN table : \A y \in DOMAIN table[x] :
         /\ LabelIn(table, y, x) # None
         /\ LabelIn(table, x, y) = "HOME" <=> LabelIn(table, y, x) = "AWAY"
         /\ LabelIn(table, x, y) = "AWAY" <=> LabelIn(table, y, x) = "HOME"
  /\ \A x \in DOMAIN INTER_RANK_ASSIGNMENTS :
       LET y == INTER_RANK_ASSIGNMENTS[x].opponent
       IN  /\ LabelInInterRank(INTER_RANK_ASSIGNMENTS, y, x) # None
           /\ LabelInInterRank(INTER_RANK_ASSIGNMENTS, x, y) = "HOME"
                <=> LabelInInterRank(INTER_RANK_ASSIGNMENTS, y, x) = "AWAY"
           /\ LabelInInterRank(INTER_RANK_ASSIGNMENTS, x, y) = "AWAY"
                <=> LabelInInterRank(INTER_RANK_ASSIGNMENTS, y, x) = "HOME"

C1_Witness ==
  /\ pc = "generate_intra_rank_assignments: returned"
  /\ locals.tails = 1
  /\ \E x, y \in TeamCodes :
       /\ CodeLess(x, y)
       /\ LabelIn(INTRA_RANK_ASSIGNMENTS, x, y) = "AWAY"
       /\ LabelIn(INTRA_RANK_ASSIGNMENTS, y, x) = "HOME"
       /\ \E z \in TeamCodes :
            /\ CodeLess(x, z)
            /\ LabelIn(INTRA_RANK_ASSIGNMENTS, x, z) = "HOME"

\* C3: in schedule_generator.generate_intra_rank_assignments, for every
\* standings, every intra pairing, every shuffle order and every outcome of
\* the coin flips, each team gets exactly 2 rank-based games within its
\* conference, 1 HOME and 1 AWAY, and the final assertions never fail.
C3_SGIntraRankOneHomeOneAway ==
  /\ pc # "generate_intra_rank_assignments: AssertionError"
  /\ pc = "generate_intra_rank_assignments: returned" =>
       /\ DOMAIN INTRA_RANK_ASSIGNMENTS = TeamCodes
       /\ \A code \in TeamCodes :
            LET entry == INTRA_RANK_ASSIGNMENTS[code]
            IN  /\ Cardinality(DOMAIN entry) = 2
                /\ Cardinality({ o \in DOMAIN entry : entry[o] = "HOME" }) = 1
                /\ Cardinality({ o \in DOMAIN entry : entry[o] = "AWAY" }) = 1

\* a query of the session has printed the schedule of a team
Printed == pc \in { "main: prompt", "main: exit" } /\ team_code \in TeamCodes

\* C5: in every session that reaches the prompt, the schedule printed for any
\* of the 32 teams lists 6 division games, 4 games against the paired division
\* of its conference, 4 against the paired division of the other conference,
\* 2 same-rank games in its conference and 1 same-rank game in the other
\* conference; no lookup of the query fails and "Total Games" is 17.
C5_SeventeenGames ==
  /\ pc # "main: error in a query"
  /\ Printed =>
       /\ schedule.team_name # None
       /\ ~ schedule.printed.raised
       /\ Len(schedule.printed.division) = 6
       /\ Len(schedule.printed.intra_conference) = 4
       /\ Len(schedule.printed.inter_conference) = 4
       /\ Len(schedule.printed.intra_rank) = 2
       /\ Len(schedule.printed.inter_rank) = 1
       /\ schedule.printed.total_games = 17
       /\ schedule.printed.total_home + schedule.printed.total_away = 17

\* the schedule of the Chiefs has been printed, 17 games, in a session whose
\* standings are not the roster order
C5_Witness ==
  /\ Printed
  /\ team_code = "KC"
  /\ standings["AFC"]["West"] # NFL_TEAMS["AFC"]["West"]
  /\ schedule.printed.total_games = 17
  /\ Len(schedule.printed.inter_rank) = 1

\* the conference of a team code
ConferenceOf(code) ==
  CHOOSE c \in ConfSet :
    \E d \in DivSet : code \in Range(Abbreviations(NFL_TEAMS[c][d]))

\* C11: home_away_assignments.generate_inter_rank_assignments never fails its
\* verification, and in its table every team of the hosting conference (AFC
\* when afc_hosts, NFC otherwise) is HOME and every team of the other
\* conference is AWAY: 16 HOME and 4 per division on the hosting side, none on
\* the visiting side.
C11_WholeConferenceHosting ==
  /\ pc # "generate_inter_rank_assignments: AssertionError"
  /\ pc = "generate_inter_rank_assignments: returned" =>
       LET hosting_conf == IF afc_hosts THEN "AFC" ELSE "NFC"
           visiting_conf == IF afc_hosts THEN "NFC" ELSE "AFC"
           homes == DivisionHomes(INTER_RANK_ASSIGNMENTS)
       IN  /\ DOMAIN INTER_RANK_ASSIGNMENTS = TeamCodes
           /\ \A code \in TeamCodes :
                /\ INTER_RANK_ASSIGNMENTS[code].location =
                     IF ConferenceOf(code) = hosting_conf THEN "HOME" ELSE "AWAY"
                /\ ConferenceOf(INTER_RANK_ASSIGNMENTS[code].opponent)
                     # ConferenceOf(code)
           /\ \A d \in DivSet : /\ homes[hosting_conf][d] = 4
                                /\ homes[visiting_conf][d] = 0

\* the NFC hosts, on standings that are not the roster order and a rank
\* pairing that sends AFC West to NFC North
C11_Witness ==
  /\ pc = "generate_inter_rank_assignments: returned"
  /\ afc_hosts = FALSE
  /\ standings["AFC"]["West"][1].abbreviation = "LAC"
  /\ inter_rankings[4] = << "AFC", "West", "NFC", "North" >>
  /\ INTER_RANK_ASSIGNMENTS["LAC"].location = "AWAY"
  /\ INTER_RANK_ASSIGNMENTS[INTER_RANK_ASSIGNMENTS["LAC"].opponent].location = "HOME"

\* C12: schedule_generator.generate_inter_rank_assignments never fails its
\* verification, and in its table each of the 32 teams has one opponent, of the
\* other conference, with the opposite label; every division has 2 HOME among
\* its 4 teams and each conference has 8.
C12_PerDivisionBalance ==
  /\ pc # "generate_inter_rank_assignments: AssertionError"
  /\ pc = "generate_inter_rank_assignments: returned" =>
       LET homes == DivisionHomes(INTER_RANK_ASSIGNMENTS)
       IN  /\ DOMAIN INTER_RANK_ASSIGNMENTS = TeamCodes
           /\ \A code \in TeamCodes :
                LET mine == INTER_RANK_ASSIGNMENTS[code]
                IN  /\ mine.location \in { "HOME", "AWAY" }
                    /\ ConferenceOf(mine.opponent) # ConferenceOf(code)
                    /\ INTER_RANK_ASSIGNMENTS[mine.opponent].opponent = code
                    /\ INTER_RANK_ASSIGNMENTS[mine.opponent].location # mine.location
           /\ \A c \in ConfSet :
                /\ \A d \in DivSet : homes[c][d] = 2
                /\ Cardinality({ code \in TeamCodes :
                                   /\ ConferenceOf(code) = c
                                   /\ INTER_RANK_ASSIGNMENTS[code].location = "HOME" }) = 8

\* a table for standings that are not the roster order and a rank pairing
\* that sends AFC West to NFC North, with a HOME and an AWAY team in AFC West
C12_Witness ==
  /\ pc = "generate_inter_rank_assignments: returned"
  /\ afc_hosts = None
  /\ standings["AFC"]["West"][1].abbreviation = "LAC"
  /\ inter_rankings[4] = << "AFC", "West", "NFC", "North" >>
  /\ \E a, b \in Range(Abbreviations(NFL_TEAMS["AFC"]["West"])) :
       /\ INTER_RANK_ASSIGNMENTS[a].location = "HOME"
       /\ INTER_RANK_ASSIGNMENTS[b].location = "AWAY"

\* what generation leaves behind for the queries of a session
SessionState ==
  << standings, intra_matchups, inter_matchups, intra_rankings, inter_rankings,
     INTRA_CONF_ASSIGNMENTS, INTER_CONF_ASSIGNMENTS, INTRA_RANK_ASSIGNMENTS,
     INTER_RANK_ASSIGNMENTS >>

\* C13: once main() has left the generation, no step (a query for a known or
\* an unknown code, in any order and however often, or QUIT) changes the
\* standings, the pairing tables, the rank-matchup tables or the four
\* assignment tables; the schedule a query prints is the one that its team
\* code has on the tables as generated, so a query for the code of the query
\* before it prints the same schedule again.
C13_SessionConsistency ==
  /\ [][ pc # "start" =>
           /\ SessionState' = SessionState
           /\ (Printed /\ Printed' /\ team_code' = team_code)
                => schedule' = schedule ]_vars
  /\ [](Printed =>
          schedule.printed =
            TeamQuery(team_code, get_division_games(team_code), standings,
                      << intra_matchups, inter_matchups >>,
                      << intra_rankings, inter_rankings >>, tables))

\* a schedule has been printed in a session with rotated standings whose
\* rank-based table of same-conference games is the generated one
C13_Witness ==
  /\ pc = "main: prompt"
  /\ team_code = "SF"
  /\ schedule.team_name = "San Francisco 49ers"
  /\ standings["NFC"]["West"] # NFL_TEAMS["NFC"]["West"]
  /\ DOMAIN INTRA_RANK_ASSIGNMENTS = TeamCodes
  /\ Len(schedule.printed.intra_rank) = 2

\* the codes the modelled inputs give that are the code of no team
UnknownCodes == { Upper(typed) : typed \in TypedInputs } \ (TeamCodes \cup { "QUIT" })

\* C14: a round of the query loop whose code is the code of no team reports
\* "not found", prints no schedule, leaves the session as generated and ends
\* at the prompt again; every other round prints the schedule of its team, in
\* whatever spelling the code was typed, and no lookup or assertion of a query
\* ever fails.
C14_UnknownTeamCode ==
  /\ [][ (pc = "main: prompt" /\ pc' # "main: exit" /\ team_code' \notin TeamCodes)
           => /\ team_code' \in UnknownCodes
              /\ schedule' = [ team_name |-> None ]
              /\ pc' = "main: prompt"
              /\ SessionState' = SessionState ]_vars
  /\ [](pc # "main: error in a query")
  /\ []((pc = "main: prompt" /\ team_code \in TeamCodes) =>
          /\ schedule.team_name = GetDivisionGamesFrom(team_code, 1)[1]
          /\ schedule.team_name # None
          /\ ~ schedule.printed.raised)

\* a round for the code of no team has ended at the prompt of a session whose
\* four tables are there
C14_Witness ==
  /\ pc = "main: prompt"
  /\ team_code = " KC"
  /\ schedule = [ team_name |-> None ]
  /\ \A t \in { INTRA_CONF_ASSIGNMENTS, INTER_CONF_ASSIGNMENTS,
                INTRA_RANK_ASSIGNMENTS, INTER_RANK_ASSIGNMENTS } :
       DOMAIN t = TeamCodes

\* main() has ended with an exception of the generation
Aborted == pc \in { "main: AssertionError", "main: IndexError" }

\* a rank-based table of same-conference games that meets its post-condition
IntraRankTableValid(table) ==
  /\ DOMAIN table = TeamCodes
  /\ \A code \in TeamCodes :
       /\ Cardinality(DOMAIN table[code]) = 2
       /\ CountLocation(table[code], "HOME") = 1
       /\ CountLocation(table[code], "AWAY") = 1

\* C15: when an assertion of a generator fails, main() ends there: no step
\* follows, no query is ever served, the table of the failing generator and
\* the tables after it stay empty and the tables before it are the verified
\* ones; the prompt is reached only with four tables that meet their
\* post-conditions.
C15_AbortOnViolatedPostcondition ==
  /\ [][ ~ Aborted ]_vars
  /\ [](Aborted => team_code = None /\ schedule = None)
  /\ [](pc = "main: AssertionError" =>
          \E failing \in 1..4 :
            /\ \A k \in failing..4 : tables[k] = EmptyDict
            /\ \A k \in 1..(failing - 1) : tables[k] # EmptyDict)
  /\ [](pc \in { "main: AssertionError", "main: prompt", "main: exit" } =>
          /\ INTRA_CONF_ASSIGNMENTS # EmptyDict => CrossVerified(INTRA_CONF_ASSIGNMENTS)
          /\ INTER_CONF_ASSIGNMENTS # EmptyDict => CrossVerified(INTER_CONF_ASSIGNMENTS)
          /\ INTRA_RANK_ASSIGNMENTS # EmptyDict
               => IntraRankTableValid(INTRA_RANK_ASSIGNMENTS)
          /\ INTER_RANK_ASSIGNMENTS # EmptyDict
               => \A c \in ConfSet : \A d \in DivSet :
                    DivisionHomes(INTER_RANK_ASSIGNMENTS)[c][d] = 2)
  /\ [](pc \in { "main: prompt", "main: exit" } =>
          \A k \in 1..4 : tables[k] # EmptyDict)

\* the assertion of generate_intra_rank_assignments has failed after the two
\* cross-division tables were assigned
C15_Witness ==
  /\ pc = "main: AssertionError"
  /\ DOMAIN INTRA_CONF_ASSIGNMENTS = TeamCodes
  /\ DOMAIN INTER_CONF_ASSIGNMENTS = TeamCodes
  /\ INTRA_RANK_ASSIGNMENTS = EmptyDict
  /\ INTER_RANK_ASSIGNMENTS = EmptyDict
  /\ team_code = None

PlacesOf(code) ==
  { place \in ConfSet \X DivSet \X Ranks :
      standings[place[1]][place[2]][place[3]].abbreviation = code }

\* C17: whatever the shuffles give, the standings of each of the 8 divisions
\* are 4 teams, each team of the division's roster once; every team stands at
\* one place, in its own division at a rank of 1..4, and get_team_rank returns
\* that rank.
C17_StandingsArePermutations ==
  /\ pc # "start" =>
       /\ DOMAIN standings = ConfSet
       /\ \A c \in ConfSet :
            /\ DOMAIN standings[c] = DivSet
            /\ \A d \in DivSet :
                 /\ Len(standings[c][d]) = 4
                 /\ Range(standings[c][d]) = Range(NFL_TEAMS[c][d])
                 /\ \A i, j \in DOMAIN standings[c][d] :
                      standings[c][d][i] = standings[c][d][j] => i = j
       /\ \A code \in TeamCodes : Cardinality(PlacesOf(code)) = 1
  /\ pc = "get_team_rank: returned" =>
       /\ schedule.rank \in Ranks
       /\ PlacesOf(team_code) =
            { << schedule.conference, schedule.division, schedule.rank >> }

\* get_team_rank has returned 1 for the Lions in standings whose NFC North is
\* neither the roster order nor a rotation of it
C17_Witness ==
  /\ pc = "get_team_rank: returned"
  /\ team_code = "DET"
  /\ schedule.rank = 1
  /\ Abbreviations(standings["NFC"]["North"]) = << "DET", "CHI", "MIN", "GB" >>

\* the pairs of a list of division pairings as a set of two-division sets
MatchingOf(pairs) == { { pairs[i][2], pairs[i][4] } : i \in DOMAIN pairs }

\* the shuffle outcomes of the division list whose positions (0,1) and (2,3)
\* give the matching
ShufflesGiving(conf, matching) ==
  { s \in ShuffleOutcomes(Divisions) :
      MatchingOf(PairsOfConference(conf, s)) = matching }

\* C18: of the 24 outcomes of the shuffle of a conference's division list, 8
\* give the matching that generate_pairings_matchups has returned for the
\* conference, and 8 give each of the 3 ways to pair up the 4 divisions; so a
\* division has each of the 3 others as its partner in 8 of the 24 outcomes.
C18_UniformMatching ==
  intra_matchups # << >> =>
    /\ Cardinality(ShuffleOutcomes(Divisions)) = 24
    /\ \A conf \in ConfSet :
         /\ Cardinality(ShufflesGiving(conf,
              MatchingOf(SelectSeq(intra_matchups, LAMBDA m : m[1] = conf)))) = 8
         /\ Cardinality({ MatchingOf(PairsOfConference(conf, s)) :
                          s \in ShuffleOutcomes(Divisions) }) = 3
         /\ \A d \in DivSet : \A partner \in DivSet \ { d } :
              Cardinality({ s \in ShuffleOutcomes(Divisions) :
                              { d, partner } \in MatchingOf(PairsOfConference(conf, s)) }) = 8

\* generate_pairings_matchups('intra') has paired North with West in the AFC
\* and North with East in the NFC
C18_Witness ==
  /\ pc = "intra_paired"
  /\ { "North", "West" } \in MatchingOf(SelectSeq(intra_matchups, LAMBDA m : m[1] = "AFC"))
  /\ { "North", "East" } \in MatchingOf(SelectSeq(intra_matchups, LAMBDA m : m[1] = "NFC"))

\* the teams a team is matched with in a set of matchups
RivalsIn(edges, code) ==
  { other \in UNION { { e[1], e[2] } : e \in edges } :
      other # code /\ SortedPair(code, other) \in edges }

\* C19: for each conference and rank, whatever the standings and whichever of
\* the 3 matchings pairs up the conference, the required matchups of the 4
\* teams of the rank are 4 different pairs of two of them, every team is in 2,
\* no pair has its teams in two divisions that the pairing has matched, and
\* the pairs form one cycle through all 4 teams.
C19_MatchupGraphIsFourCycle ==
  pc \in { "generate_intra_rank_assignments: returned",
           "generate_intra_rank_assignments: AssertionError" } =>
    \A conference \in ConfSet : \A rank \in Ranks :
      \A rank_group \in { RankGroup(standings, conference, rank) } :
        \A edges \in { RankMatchupSet(rank_group, conference, intra_rankings) } :
          LET codes == { rank_group[k][1] : k \in DOMAIN rank_group }
              division == [ code \in codes |->
                              rank_group[CHOOSE k \in DOMAIN rank_group :
                                           rank_group[k][1] = code][2] ]
              paired == MatchingOf(SelectSeq(intra_matchups,
                                             LAMBDA m : m[1] = conference))
          IN  /\ Cardinality(codes) = 4
              /\ Cardinality(edges) = 4
              /\ \A e \in edges :
                   /\ e[1] \in codes /\ e[2] \in codes /\ e[1] # e[2]
                   /\ e = SortedPair(e[1], e[2])
                   /\ { division[e[1]], division[e[2]] } \notin paired
              /\ \A code \in codes :
                   /\ Cardinality(RivalsIn(edges, code)) = 2
                   /\ UNION { RivalsIn(edges, rival) : rival \in RivalsIn(edges, code) }
                        = { code } \cup (codes \ RivalsIn(edges, code))

\* rank 1 of the AFC with North paired with East: the Ravens, first of North,
\* are matched with the first of South and the first of West, which are not
\* matched with each other, on standings that are not the roster order
C19_Witness ==
  /\ pc = "generate_intra_rank_assignments: returned"
  /\ intra_rankings["AFC North"] = << "South", "West" >>
  /\ standings["AFC"]["South"][1].abbreviation = "JAX"
  /\ standings["AFC"]["West"][1].abbreviation = "LAC"
  /\ RivalsIn(RankMatchupSet(RankGroup(standings, "AFC", 1), "AFC", intra_rankings),
              "BAL") = { "JAX", "LAC" }
  /\ SortedPair("JAX", "LAC")
       \notin RankMatchupSet(RankGroup(standings, "AFC", 1), "AFC", intra_rankings)

\* generate_intra_rank_assignments of home_away_assignments.py is inside a
\* rank group
InRankGroup ==
  pc \in { "generate_intra_rank_assignments: first pass",
           "generate_intra_rank_assignments: second pass",
           "generate_intra_rank_assignments: rank group assertions" }

\* C20: after every iteration of either pass of a rank group, each team of the
\* group has a home_count of at most 1 and an away_count of at most 1, the
\* two are its HOME and its AWAY labels so far, and together they are the
\* number of its matchups labelled so far.
C20_NoOvercommitment ==
  InRankGroup =>
    \A team \in DOMAIN locals.l.home_count :
      LET labelled == { m \in Range(locals.matchups) :
                          /\ team \in { m[1], m[2] }
                          /\ Assigned(locals.l.assignments, m[1], m[2]) }
      IN  /\ locals.l.home_count[team] <= 1
          /\ locals.l.away_count[team] <= 1
          /\ locals.l.home_count[team] + locals.l.away_count[team]
               = Cardinality(labelled)
          /\ locals.l.home_count[team]
               = CountLocation(locals.l.assignments[team], "HOME")
          /\ locals.l.away_count[team]
               = CountLocation(locals.l.assignments[team], "AWAY")

\* the second pass has labelled three of the four matchups of a rank group,
\* the first by a flip that came out as tails: two teams have both games, two
\* have one
C20_Witness ==
  /\ pc = "generate_intra_rank_assignments: second pass"
  /\ locals.n = 4
  /\ locals.done = 5
  /\ locals.l.tail_flips = { 5 }
  /\ Cardinality({ team \in DOMAIN locals.l.home_count :
                     locals.l.home_count[team] + locals.l.away_count[team] = 2 }) = 2
  /\ Cardinality({ team \in DOMAIN locals.l.home_count :
                     locals.l.home_count[team] + locals.l.away_count[team] = 1 }) = 2

\* C21: for every team and each of its two opponents of the rank-based games
\* within the conference, some results of the coin make the team HOME against
\* that opponent and some make it AWAY: among the runs of
\* generate_intra_rank_assignments on the same standings and rankings there is
\* one with either label, also for the team whose code sorts first.  (The runs
\* of one standings and pairing are compared in the state of the run in which
\* every flip came out as heads.)
C21_NoSortOrderBias ==
  (pc = "generate_intra_rank_assignments: returned" /\ locals.tail_flips = {}) =>
    \A runs \in { { o.assignments :
                    o \in { r \in ha_generate_intra_rank_assignments(standings, intra_rankings) :
                            ~ r.raised } } } :
      \A team \in TeamCodes :
        /\ Cardinality(DOMAIN INTRA_RANK_ASSIGNMENTS[team]) = 2
        /\ \A opp \in DOMAIN INTRA_RANK_ASSIGNMENTS[team] :
             /\ \E a \in runs : a[team][opp] = "HOME"
             /\ \E a \in runs : a[team][opp] = "AWAY"
             /\ \E a \in runs : a[team][opp] # INTRA_RANK_ASSIGNMENTS[team][opp]

\* the run in which every flip came out as heads has returned, on standings
\* that are not the roster order: the team whose code sorts first in a rank
\* group is HOME against the first of its opponents
C21_Witness ==
  /\ pc = "generate_intra_rank_assignments: returned"
  /\ locals.tail_flips = {}
  /\ locals.flips = 8
  /\ standings["AFC"]["South"][1].abbreviation = "JAX"
  /\ \E team \in TeamCodes : \E opp \in DOMAIN INTRA_RANK_ASSIGNMENTS[team] :
       /\ CodeLess(team, opp)
       /\ INTRA_RANK_ASSIGNMENTS[team][opp] = "HOME"

\* C22: the first pass of generate_intra_rank_assignments of
\* home_away_assignments.py labels no matchup.  While it runs, every counter
\* of the rank group is 0 and no matchup of the group has a label; none of
\* its iterations changes assignments, home_count or away_count; and at the
\* assertions of the rank group all four matchups have a label, which the
\* second pass gave them.
C22_FirstPassLabelsNothing ==
  /\ [][pc = "generate_intra_rank_assignments: first pass" =>
          /\ locals'.l.assignments = locals.l.assignments
          /\ locals'.l.home_count = locals.l.home_count
          /\ locals'.l.away_count = locals.l.away_count]_vars
  /\ [](pc \in { "generate_intra_rank_assignments: first pass",
                 "generate_intra_rank_assignments: second pass",
                 "generate_intra_rank_assignments: rank group assertions",
                 "generate_intra_rank_assignments: next rank group",
                 "generate_intra_rank_assignments: returned" } =>
          locals.l.first_pass_labels = 0)
  /\ [](pc = "generate_intra_rank_assignments: first pass" =>
          /\ \A team \in DOMAIN locals.l.home_count :
               /\ locals.l.home_count[team] = 0
               /\ locals.l.away_count[team] = 0
          /\ \A n \in DOMAIN locals.matchups :
               ~ Assigned(locals.l.assignments,
                          locals.matchups[n][1], locals.matchups[n][2]))
  /\ []((pc = "generate_intra_rank_assignments: second pass" /\ locals.n = 1) =>
          \A n \in DOMAIN locals.matchups :
            ~ Assigned(locals.l.assignments,
                       locals.matchups[n][1], locals.matchups[n][2]))
  /\ [](pc = "generate_intra_rank_assignments: rank group assertions" =>
          /\ Len(locals.matchups) = 4
          /\ \A n \in DOMAIN locals.matchups :
               Assigned(locals.l.assignments,
                        locals.matchups[n][1], locals.matchups[n][2]))

\* the first pass of the fourth rank group of the NFC has gone through its
\* four matchups, and the second pass begins with no label in the group
C22_Witness ==
  /\ pc = "generate_intra_rank_assignments: second pass"
  /\ locals.n = 1
  /\ locals.done = 7
  /\ Len(locals.matchups) = 4
  /\ locals.l.first_pass_labels = 0
  /\ \A team \in DOMAIN locals.l.home_count :
       locals.l.assignments[team] = EmptyDict

\* neither team of the matchup the second pass comes to next has a game in
\* its rank group yet
BothUndecided ==
  \A team \in { locals.matchups[locals.n][1], locals.matchups[locals.n][2] } :
    /\ locals.l.home_count[team] = 0
    /\ locals.l.away_count[team] = 0

\* C23: in every rank group of generate_intra_rank_assignments of
\* home_away_assignments.py the coin is flipped once, for the first matchup
\* of the sorted list, and the three other matchups are labelled by a forced
\* branch: an iteration of the second pass flips the coin exactly when both
\* teams of its matchup have home_count = 0 and away_count = 0, that is the
\* case exactly at the first matchup, and an iteration without a flip has one
\* result, which labels the matchup.
C23_OneCoinFlipPerRankGroup ==
  /\ [][pc = "generate_intra_rank_assignments: second pass" =>
          /\ locals'.l.flips = locals.l.flips + (IF BothUndecided THEN 1 ELSE 0)
          /\ BothUndecided <=> locals.n = 1
          /\ ~ BothUndecided =>
               /\ ~ Assigned(locals.l.assignments, locals.matchups[locals.n][1],
                             locals.matchups[locals.n][2])
               /\ Assigned(locals'.l.assignments, locals.matchups[locals.n][1],
                           locals.matchups[locals.n][2])
               /\ locals'.l.tails = locals.l.tails]_vars
  /\ []((pc = "generate_intra_rank_assignments: second pass" /\ locals.n > 1) =>
          Cardinality(SecondPassStep(locals.l, locals.matchups[locals.n][1],
                                     locals.matchups[locals.n][2])) = 1)
  /\ [](pc = "generate_intra_rank_assignments: second pass" =>
          locals.l.flips = locals.done + (IF locals.n = 1 THEN 0 ELSE 1))
  /\ [](pc = "generate_intra_rank_assignments: rank group assertions" =>
          /\ Len(locals.matchups) = 4
          /\ locals.l.flips = locals.done + 1)
  /\ [](pc = "generate_intra_rank_assignments: returned" =>
          locals.l.flips = RankGroupCount)

\* the second pass has flipped the coin for the first matchup of a rank
\* group, it came out as tails, and the second matchup was labelled by a
\* forced branch
C23_Witness ==
  /\ pc = "generate_intra_rank_assignments: second pass"
  /\ locals.n = 3
  /\ locals.done = 2
  /\ locals.l.flips = 3
  /\ locals.l.tail_flips = { 2 }
  /\ Cardinality({ n \in DOMAIN locals.matchups :
                     Assigned(locals.l.assignments, locals.matchups[n][1],
                              locals.matchups[n][2]) }) = 2

\* the processing loop of schedule_generator.generate_intra_rank_assignments
\* is at a matchup
SGProcessing ==
  /\ pc = "generate_intra_rank_assignments: processing"
  /\ locals.done < Len(locals.l.matchups)

\* both teams of the matchup the processing loop comes to next have one game
\* each, with the same label
SameSingleLabel(location) ==
  \A team \in { locals.l.matchups[locals.done + 1][1],
                locals.l.matchups[locals.done + 1][2] } :
    /\ Cardinality(DOMAIN locals.l.assignments[team]) = 1
    /\ \A opp \in DOMAIN locals.l.assignments[team] :
         locals.l.assignments[team][opp] = location
    /\ locals.l.total_games[team] = 1
    /\ locals.l.home_games[team] = (IF location = "HOME" THEN 1 ELSE 0)
    /\ locals.l.away_games[team] = (IF location = "AWAY" THEN 1 ELSE 0)

\* C24: in schedule_generator.generate_intra_rank_assignments an iteration of
\* the processing loop takes the fallback branch exactly when both teams of
\* the matchup have one game each and with the same label (both HOME or both
\* AWAY); once it was taken some team has 2 HOME or 2 AWAY games, and the
\* call ends in the AssertionError of the verification.
C24_FallbackBranch ==
  /\ [][SGProcessing =>
          ( locals'.l.fallbacks # locals.l.fallbacks
              <=> ( SameSingleLabel("HOME") \/ SameSingleLabel("AWAY") ) )]_vars
  /\ [](( pc \in { "generate_intra_rank_assignments: processing",
                   "generate_intra_rank_assignments: AssertionError" }
          /\ locals.l.fallbacks > 0 ) =>
          \E team \in DOMAIN locals.l.assignments :
            \/ CountLocation(locals.l.assignments[team], "HOME") = 2
            \/ CountLocation(locals.l.assignments[team], "AWAY") = 2
            \/ locals.l.home_games[team] = 2
            \/ locals.l.away_games[team] = 2)
  /\ [](pc = "generate_intra_rank_assignments: returned" =>
          locals.l.fallbacks = 0)
  /\ []((SGProcessing /\ locals.l.fallbacks > 0) => ~ SGIntraRankVerified(locals.l))

\* the fallback branch was taken for two teams that both had an AWAY game,
\* and the call has ended in the AssertionError
C24_Witness ==
  /\ pc = "generate_intra_rank_assignments: AssertionError"
  /\ locals.l.fallbacks > 0
  /\ locals.done = 32
  /\ \E team \in DOMAIN locals.l.assignments :
       CountLocation(locals.l.assignments[team], "AWAY") = 2

\* the local variables of schedule_generator.generate_inter_rank_assignments
\* before its first pass over the matchups
SGInterBeforePasses ==
  [ assignments |-> EmptyDict,
    conference_homes |-> [ c \in ConfSet |-> 0 ],
    division_homes |-> [ c \in ConfSet |-> [ d \in DivSet |-> 0 ] ],
    processed_teams |-> {} ]

\* C25: schedule_generator.generate_inter_rank_assignments has no choice to
\* make.  Its first pass over the matchups of the call labels none of them
\* and leaves every local variable as it was; and for every pair of an AFC
\* and an NFC division of the inter rank pairing the teams of rank 1 and 2 of
\* the NFC division are HOME and those of the AFC division AWAY, the teams of
\* rank 3 and 4 of the AFC division are HOME and those of the NFC division
\* AWAY, whatever teams the standings have at those ranks.
C25_NoFreeChoice ==
  /\ pc \in { "generate_inter_rank_assignments: returned",
              "generate_inter_rank_assignments: AssertionError" } =>
       SGInterPass([ l |-> SGInterBeforePasses, done |-> 0 ],
                   SGInterMatchups(standings, inter_rankings), 1)
         = SGInterBeforePasses
  /\ pc = "generate_inter_rank_assignments: returned" =>
       /\ Len(inter_rankings) = 4
       /\ \A k \in DOMAIN inter_rankings :
            /\ inter_rankings[k][1] = "AFC"
            /\ inter_rankings[k][3] = "NFC"
            /\ \A rank \in Ranks :
                 LET afc == standings["AFC"][inter_rankings[k][2]][rank].abbreviation
                     nfc == standings["NFC"][inter_rankings[k][4]][rank].abbreviation
                 IN  /\ INTER_RANK_ASSIGNMENTS[afc] =
                          [ opponent |-> nfc,
                            location |-> IF rank <= 2 THEN "AWAY" ELSE "HOME" ]
                     /\ INTER_RANK_ASSIGNMENTS[nfc] =
                          [ opponent |-> afc,
                            location |-> IF rank <= 2 THEN "HOME" ELSE "AWAY" ]

\* a table for standings that are not the roster order and a rank pairing
\* that sends AFC West to NFC North: the first two teams of NFC North and the
\* last two of AFC West are HOME
C25_Witness ==
  /\ pc = "generate_inter_rank_assignments: returned"
  /\ afc_hosts = None
  /\ standings["AFC"]["West"][1].abbreviation = "LAC"
  /\ inter_rankings[4] = << "AFC", "West", "NFC", "North" >>
  /\ INTER_RANK_ASSIGNMENTS["LAC"].location = "AWAY"
  /\ INTER_RANK_ASSIGNMENTS[standings["AFC"]["West"][4].abbreviation].location = "HOME"
  /\ INTER_RANK_ASSIGNMENTS[standings["NFC"]["North"][2].abbreviation].location = "HOME"

\* the codes of the teams of a conference with the given names
CodesOf(conf, names) ==
  { item[2] : item \in Range(OpponentCodes(conf, names, << >>)) }

\* the opponents of a team by category, as the query loop of main() looks
\* them up in the standings and matchups, and the two divisions of the other
\* conference it meets
SeasonOpponents(code) ==
  LET found == get_division_games(code)
      conf == found[2]
      div == found[3]
      rank == get_team_rank(found[1], standings)
      intra == find_division_matchup(conf, div, intra_matchups)
      inter == find_division_matchup(conf, div, inter_matchups)
  IN  [ division |-> CodesOf(conf, found[4]),
        intra_cross |-> CodesOf(intra[1], get_teams_in_division(intra[1], intra[2])),
        inter_cross |-> CodesOf(inter[1], get_teams_in_division(inter[1], inter[2])),
        intra_rank |->
          CodesOf(conf, get_intra_ranking_based_opponents(conf, div, rank,
                                                          standings, intra_rankings)),
        inter_rank |->
          CodesOf(IF conf = "AFC" THEN "NFC" ELSE "AFC",
                  << get_inter_ranking_based_opponent(conf, div, rank,
                                                      standings, inter_rankings) >>),
        inter_cross_division |-> inter,
        inter_rank_division |-> find_inter_ranking_division(conf, div, inter_rankings) ]

\* C26: in every session whose standings and matchups schedule_setup has
\* generated, every team has 3 division opponents, 4 of the paired division
\* of its conference, 4 of the paired division of the other conference, 2
\* rank-based ones of its conference and 1 of the other conference; the 14 are
\* pairwise distinct and none is the team itself, and the division of the
\* rank-based opponent of the other conference is not the division paired
\* with the team's division.
C26_OpponentsDistinct ==
  pc = "main: standings and matchups generated" =>
    \A code \in TeamCodes :
      \A o \in { SeasonOpponents(code) } :
        /\ Cardinality(o.division) = 3
        /\ Cardinality(o.intra_cross) = 4
        /\ Cardinality(o.inter_cross) = 4
        /\ Cardinality(o.intra_rank) = 2
        /\ Cardinality(o.inter_rank) = 1
        /\ Cardinality(o.division \cup o.intra_cross \cup o.inter_cross
                         \cup o.intra_rank \cup o.inter_rank) = 14
        /\ code \notin o.division \cup o.intra_cross \cup o.inter_cross
                         \cup o.intra_rank \cup o.inter_rank
        /\ o.inter_rank_division \in DivSet
        /\ o.inter_rank_division # o.inter_cross_division[2]

\* a session with rotated standings, an inter pairing that is not by name and
\* an intra pairing that differs between the conferences
C26_Witness ==
  /\ pc = "main: standings and matchups generated"
  /\ standings["AFC"]["West"] # NFL_TEAMS["AFC"]["West"]
  /\ find_division_matchup("AFC", "North", inter_matchups) = << "NFC", "West" >>
  /\ find_division_matchup("AFC", "North", intra_matchups)[2]
       # find_division_matchup("NFC", "North", intra_matchups)[2]
  /\ Cardinality(SeasonOpponents("KC").inter_rank) = 1

\* every lookup the query loop of main() makes for a team code finds its
\* entry: the team, its rank, the paired divisions, the divisions of the
\* rank-based games, and the entry of every opponent in the four tables
LookupsFound(code) ==
  \A found \in { get_division_games(code) } :
    /\ found[1] # None
    /\ get_team_rank(found[1], standings) \in Ranks
    /\ find_division_matchup(found[2], found[3], intra_matchups)[1] \in ConfSet
    /\ find_division_matchup(found[2], found[3], intra_matchups)[2] \in DivSet
    /\ find_division_matchup(found[2], found[3], inter_matchups)[1] \in ConfSet
    /\ find_division_matchup(found[2], found[3], inter_matchups)[2] \in DivSet
    /\ DivKey(found[2], found[3]) \in DOMAIN intra_rankings
    /\ Len(intra_rankings[DivKey(found[2], found[3])]) = 2
    /\ InterRankingOppDiv(found[2], found[3], inter_rankings) \in DivSet
    /\ find_inter_ranking_division(found[2], found[3], inter_rankings) \in DivSet
    /\ \A o \in { SeasonOpponents(code) } :
         /\ Cardinality(o.intra_cross) = 4
         /\ \A opp \in o.intra_cross :
              LabelIn(INTRA_CONF_ASSIGNMENTS, code, opp) \in { "HOME", "AWAY" }
         /\ Cardinality(o.inter_cross) = 4
         /\ \A opp \in o.inter_cross :
              LabelIn(INTER_CONF_ASSIGNMENTS, code, opp) \in { "HOME", "AWAY" }
         /\ Cardinality(o.intra_rank) = 2
         /\ \A opp \in o.intra_rank :
              LabelIn(INTRA_RANK_ASSIGNMENTS, code, opp) \in { "HOME", "AWAY" }
         /\ Cardinality(o.inter_rank) = 1
         /\ code \in DOMAIN INTER_RANK_ASSIGNMENTS
         /\ INTER_RANK_ASSIGNMENTS[code].location \in { "HOME", "AWAY" }

\* C27: when main() has come to its prompt, each of the four tables has an
\* entry for each of the 32 team codes, every lookup of a query for a team
\* code finds its entry, and no query for a team ends in an error.  (The
\* lookups of all 32 teams are checked in the state before the first query;
\* the tables and the standings do not change after it.)
C27_TablesAreTotal ==
  /\ pc \in { "main: prompt", "main: exit" } =>
       /\ DOMAIN INTRA_CONF_ASSIGNMENTS = TeamCodes
       /\ DOMAIN INTER_CONF_ASSIGNMENTS = TeamCodes
       /\ DOMAIN INTRA_RANK_ASSIGNMENTS = TeamCodes
       /\ DOMAIN INTER_RANK_ASSIGNMENTS = TeamCodes
  /\ (pc = "main: prompt" /\ team_code = None) =>
       \A code \in TeamCodes : LookupsFound(code)
  /\ pc # "main: error in a query"
  /\ Printed => ~ schedule.printed.raised

\* main() is at its first prompt with all four tables, for standings that
\* are not the roster order
C27_Witness ==
  /\ pc = "main: prompt"
  /\ team_code = None
  /\ standings["AFC"]["West"] # NFL_TEAMS["AFC"]["West"]
  /\ DOMAIN INTER_RANK_ASSIGNMENTS = TeamCodes
  /\ LookupsFound("KC")

\* the name of the team with a code
NameOf(code) ==
  (CHOOSE t \in UNION { Range(NFL_TEAMS[c][d]) : c \in ConfSet, d \in DivSet } :
     t.abbreviation = code).name

\* C28: what a query computes and what the tables hold are the same
\* rank-based opponents.  For every team the two opponents that
\* get_intra_ranking_based_opponents finds are the two keys of the team's
\* entry in the table of the rank-based games within the conference, and the
\* opponent that get_inter_ranking_based_opponent finds is the 'opponent' of
\* its entry in the table of the rank-based games between the conferences; a
\* printed schedule shows each of these opponents with the label the table
\* has for it.  (The opponents of all 32 teams are compared in the state
\* before the first query.)
C28_QueryAndTablesAgree ==
  /\ (pc = "main: prompt" /\ team_code = None) =>
       \A code \in TeamCodes :
         \A o \in { SeasonOpponents(code) } :
           /\ o.intra_rank = DOMAIN INTRA_RANK_ASSIGNMENTS[code]
           /\ Cardinality(o.intra_rank) = 2
           /\ o.inter_rank = { INTER_RANK_ASSIGNMENTS[code].opponent }
  /\ Printed =>
       /\ { << NameOf(opp), INTRA_RANK_ASSIGNMENTS[team_code][opp] >> :
            opp \in DOMAIN INTRA_RANK_ASSIGNMENTS[team_code] }
            = Range(schedule.printed.intra_rank)
       /\ schedule.printed.inter_rank
            = << << NameOf(INTER_RANK_ASSIGNMENTS[team_code].opponent),
                    INTER_RANK_ASSIGNMENTS[team_code].location >> >>

\* the printed schedule of a team that is not first of its division, in
\* standings that are not the roster order, with its rank-based game against
\* the other conference away
C28_Witness ==
  /\ Printed
  /\ team_code = "KC"
  /\ standings["AFC"]["West"][1].abbreviation # "KC"
  /\ schedule.printed.inter_rank
       = << << NameOf(INTER_RANK_ASSIGNMENTS["KC"].opponent), "AWAY" >> >>
  /\ Len(schedule.printed.intra_rank) = 2

\* the sum of the values of a dictionary over the keys in S
RECURSIVE SumOf(_, _)
SumOf(f, S) ==
  IF S = {} THEN 0
  ELSE LET x == CHOOSE y \in S : TRUE
       IN  f[x] + SumOf(f, S \ { x })

\* the games of a printed list with a label
Labelled(games, location) == { i \in DOMAIN games : games[i][2] = location }

\* the schedules main() prints for the 32 teams, on table4 as the table of the
\* rank-based games between the conferences
SchedulesOn(table4) ==
  [ code \in TeamCodes |->
      TeamQuery(code, get_division_games(code), standings,
                << intra_matchups, inter_matchups >>,
                << intra_rankings, inter_rankings >>,
                << INTRA_CONF_ASSIGNMENTS, INTER_CONF_ASSIGNMENTS,
                   INTRA_RANK_ASSIGNMENTS, table4 >>) ]

\* C29: every printed schedule has 17 games, 8 HOME and 9 AWAY or 9 HOME and
\* 8 AWAY: 3 + 2 + 2 + 1 HOME and as many AWAY in the division, the two
\* cross-division categories and the rank-based games within the conference,
\* and the rank-based game against the other conference on top.  Over the 32
\* teams of a session the schedules have 272 HOME and 272 AWAY games, with
\* the table of schedule_generator.generate_inter_rank_assignments and with
\* the table home_away_assignments.generate_inter_rank_assignments returns for
\* either value of afc_hosts.  (The sums are taken in the state before the
\* first query.)
C29_SeasonHomeAwaySplit ==
  /\ Printed =>
       \A p \in { schedule.printed } :
         /\ Cardinality(Labelled(p.division, "HOME")) = 3
         /\ Cardinality(Labelled(p.division, "AWAY")) = 3
         /\ Cardinality(Labelled(p.intra_conference, "HOME")) = 2
         /\ Cardinality(Labelled(p.intra_conference, "AWAY")) = 2
         /\ Cardinality(Labelled(p.inter_conference, "HOME")) = 2
         /\ Cardinality(Labelled(p.inter_conference, "AWAY")) = 2
         /\ Cardinality(Labelled(p.intra_rank, "HOME")) = 1
         /\ Cardinality(Labelled(p.intra_rank, "AWAY")) = 1
         /\ Len(p.inter_rank) = 1
         /\ p.inter_rank[1][2] = INTER_RANK_ASSIGNMENTS[team_code].location
         /\ p.total_home = 8 + Cardinality(Labelled(p.inter_rank, "HOME"))
         /\ p.total_away = 8 + Cardinality(Labelled(p.inter_rank, "AWAY"))
         /\ << p.total_home, p.total_away >> \in { << 8, 9 >>, << 9, 8 >> }
         /\ p.total_games = 17
  /\ (pc = "main: prompt" /\ team_code = None) =>
       \A table4 \in { INTER_RANK_ASSIGNMENTS }
                       \cup { ha_generate_inter_rank_assignments(
                                standings, inter_rankings, hosts).assignments :
                              hosts \in BOOLEAN } :
         \A printed \in { SchedulesOn(table4) } :
           /\ \A code \in TeamCodes :
                /\ ~ printed[code].raised
                /\ << printed[code].total_home, printed[code].total_away >>
                     \in { << 8, 9 >>, << 9, 8 >> }
           /\ SumOf([ code \in TeamCodes |-> printed[code].total_home ], TeamCodes) = 272
           /\ SumOf([ code \in TeamCodes |-> printed[code].total_away ], TeamCodes) = 272

\* a printed schedule with 9 HOME and 8 AWAY games, in standings that are not
\* the roster order
C29_Witness ==
  /\ Printed
  /\ standings["AFC"]["West"] # NFL_TEAMS["AFC"]["West"]
  /\ schedule.printed.total_home = 9
  /\ schedule.printed.total_away = 8
  /\ schedule.printed.inter_rank[1][2] = "HOME"

\* C30: the reference data is never mutated: after any number of generations
\* of the standings and of the cross-division tables and any number of
\* queries, every division list of NFL_TEAMS has the order and the content
\* nfl_teams.py gave it, and so a cross-division table generated for a
\* pairing has the labels the parity rule gives on those lists, whatever
\* the standings are.
C30_ReferenceDataNeverMutated ==
  /\ nfl_teams = NFL_TEAMS
  /\ INTRA_CONF_ASSIGNMENTS # EmptyDict
       => INTRA_CONF_ASSIGNMENTS =
            generate_intra_conference_assignments(intra_matchups)
  /\ INTER_CONF_ASSIGNMENTS # EmptyDict
       => INTER_CONF_ASSIGNMENTS =
            generate_inter_conference_assignments(inter_matchups)

\* both cross-division tables are generated, the last one after standings
\* that differ from the roster order and after a query
C30_Witness ==
  /\ pc = "generate_intra_conference_assignments: returned"
  /\ standings # EmptyDict
  /\ standings["AFC"]["West"] # NFL_TEAMS["AFC"]["West"]
  /\ standings["NFC"]["North"] # NFL_TEAMS["NFC"]["North"]
  /\ team_code = "KC"
  /\ schedule.rank = 2
  /\ DOMAIN INTRA_CONF_ASSIGNMENTS = TeamCodes
  /\ DOMAIN INTER_CONF_ASSIGNMENTS = TeamCodes
  /\ nfl_teams = NFL_TEAMS

====
